---- MODULE Spec2Model ----
(***************************************************************************)
(* GitLab -> Forgejo migration (lremane/gitlab-2-forge-migration).         *)
(*                                                                         *)
(* The migration is one sequential process.  It is modelled as a program   *)
(* counter machine with one step per request sent to the target (Forgejo)  *)
(* or to the source (GitLab).  The target is the environment: it answers   *)
(* every request either truthfully (from its stored state fg), or with an  *)
(* unexpected status, or the transport raises.  The target finishes a      *)
(* repository import whose request timed out on its own (ImportCompletes). *)
(*                                                                         *)
(* Names are sequences of one-character strings, so that name_clean is     *)
(* computed character by character as the code does.                       *)
(***************************************************************************)
EXTENDS Integers, Sequences, FiniteSets, TLC

VARIABLES
    gl,                  \* the source (GitLab) data read by the run; never written
    args,                \* command line: [users, groups, projects, notify]
    budget,              \* how many non-truthful answers the environment may still give in total
    fg,                  \* the target (Forgejo) stored state
    pc,                  \* position of the process
    stk,                 \* return positions of the active calls
    loc,                 \* local variables of the active functions
    GLOBAL_ERROR_COUNT,  \* fg_print.GLOBAL_ERROR_COUNT
    GLOBAL_ERROR_LIST,   \* fg_print.GLOBAL_ERROR_LIST
    warnCount,           \* number of fg_print.warning calls
    lastReq,             \* the request sent by the last step (NoReq when it sent none)
    sent,                \* per kind, the number of create requests sent in this run
    gate,                \* per kind, key and result of the latest existence lookup
    faults,              \* non-truthful answers given so far
    hist,                \* per project: what the owner resolver and the migrate loop saw and did
    run                  \* 1 in the first run of the process, 2 in the second

vars == <<gl, args, budget, fg, pc, stk, loc, GLOBAL_ERROR_COUNT, GLOBAL_ERROR_LIST,
          warnCount, lastReq, sent, gate, faults, hist, run>>

-----------------------------------------------------------------------------
(* Bounds of the model *)

\* non-truthful answers (unexpected status, timeout, transport exception) per run
MaxFaults == 1

\* non-truthful answers in the runs that study the migrate retry loop
MaxRepoFaults == 3

\* non-truthful answers in the runs of the projects pass on one full project
MaxProjectFaults == 2

\* length of the names drawn character by character
MaxNameLen == 2

-----------------------------------------------------------------------------
(* Characters and names *)

UpperCase == <<"A","B","C","D","E","F","G","H","I","J","K","L","M",
               "N","O","P","Q","R","S","T","U","V","W","X","Y","Z">>
LowerCase == <<"a","b","c","d","e","f","g","h","i","j","k","l","m",
               "n","o","p","q","r","s","t","u","v","w","x","y","z">>
Digits == {"0","1","2","3","4","5","6","7","8","9"}

Range(s) == {s[i] : i \in 1..Len(s)}

\* the character class [a-zA-Z0-9_\.-] of the regular expression
AllowedChars == Range(UpperCase) \cup Range(LowerCase) \cup Digits \cup {"_", ".", "-"}

LowerChar(c) ==
    IF c \in Range(UpperCase)
    THEN LowerCase[CHOOSE i \in 1..Len(UpperCase) : UpperCase[i] = c]
    ELSE c

\* str.lower()
Lower(s) == [i \in 1..Len(s) |-> LowerChar(s[i])]

Reserved == <<"p","l","u","g","i","n","s">>
ReservedSuffix == <<"-","u","s","e","r">>

\* name.replace(" ", "_")
ReplaceSpaces(name) == [i \in 1..Len(name) |-> IF name[i] = " " THEN "_" ELSE name[i]]

\* the substitution as it would be if it left every character as it is
SubDisallowed_keeps(name) == name

\* re.sub(r"[^a-zA-Z0-9_\.-]", "-", name)
SubDisallowed(name) == [i \in 1..Len(name) |-> IF name[i] \in AllowedChars THEN name[i] ELSE "-"]

name_clean(name) ==
    LET new_name == SubDisallowed(ReplaceSpaces(name))
    IN  IF Lower(new_name) = Reserved THEN new_name \o ReservedSuffix ELSE new_name

RECURSIVE LStrip(_)
LStrip(s) == IF s # <<>> /\ Head(s) = " " THEN LStrip(Tail(s)) ELSE s

RECURSIVE RStrip(_)
RStrip(s) == IF s # <<>> /\ s[Len(s)] = " " THEN RStrip(SubSeq(s, 1, Len(s) - 1)) ELSE s

\* str.strip(), for the blank the model's names use
Strip(s) == RStrip(LStrip(s))

\* None and the empty string: both are falsy wherever the code tests a name
Empty == <<>>

Importer == <<"f","o","r","g","e","j","o","-","i","m","p","o","r","t","e","r">>

-----------------------------------------------------------------------------
(* Requests, answers and the bookkeeping every step does *)

Kinds == {"user", "org", "repo", "collab", "label", "milestone", "issue", "member", "key"}

NoReq == [op |-> "none", kind |-> "none", key |-> <<>>, body |-> <<>>]
NoSent == [op |-> "none", kind |-> "none", key |-> <<>>, body |-> <<>>,
           reported |-> "none"]
Req(op, kind, key, body) == [op |-> op, kind |-> kind, key |-> key, body |-> body]

NoLook == [kind |-> "none", key |-> <<>>, found |-> FALSE]
Look(kind, key, found) == [kind |-> kind, key |-> key, found |-> found]

NoGate == [key |-> <<>>, state |-> "none"]

\* fg_print.error called with one argument: no failed element is given
NoTag == <<"untagged">>

\* The answers the environment may give to a request whose truthful answer is a
\* success exactly when okTruth: the truthful one, an unexpected status ("bad", only
\* where it differs from the truth), or an exception raised by the transport ("exc").
Answers(okTruth) ==
    {"truth"} \cup
    (IF faults < budget THEN (IF okTruth THEN {"bad"} ELSE {}) \cup {"exc"} ELSE {})

\* A call to the source: it answers or it raises.
SourceAnswers == {"truth"} \cup (IF faults < budget THEN {"bad"} ELSE {})

Ok(o, okTruth) == o = "truth" /\ okTruth

\* the status of the answer to a lookup
Status(o, okTruth) ==
    IF o = "truth" THEN (IF okTruth THEN "OK" ELSE "NOT_FOUND") ELSE "ERROR"

\* the status of the answer to a create request
Created(o, okTruth) == IF Ok(o, okTruth) THEN "CREATED" ELSE "REJECTED"
Fault(o) == IF o = "truth" THEN 0 ELSE 1

\* the step that changes nothing but what it names
B == [pc |-> pc, stk |-> stk, loc |-> loc, fg |-> fg, errs |-> <<>>, warns |-> 0,
      req |-> NoReq, look |-> NoLook, fault |-> 0, hist |-> hist]

Tagged(errs) == SelectSeq(errs, LAMBDA t : t # NoTag)

\* fg_print.error(message, failed_element): counts every call, lists the failed element
ErrorCount(count, errs) == count + Len(errs)
ErrorList(list, errs) == list \o Tagged(errs)

Commit(n) ==
    /\ pc' = n.pc
    /\ stk' = n.stk
    /\ loc' = n.loc
    /\ fg' = n.fg
    /\ GLOBAL_ERROR_COUNT' = ErrorCount(GLOBAL_ERROR_COUNT, n.errs)
    /\ GLOBAL_ERROR_LIST' = ErrorList(GLOBAL_ERROR_LIST, n.errs)
    /\ warnCount' = warnCount + n.warns
    /\ lastReq' = [op |-> n.req.op, kind |-> n.req.kind, key |-> n.req.key,
                    body |-> n.req.body,
                    reported |-> IF n.look.kind = "none" THEN "none"
                                 ELSE IF n.look.found THEN "present" ELSE "absent"]
    /\ sent' = IF n.req.op = "create" THEN [sent EXCEPT ![n.req.kind] = @ + 1] ELSE sent
    /\ gate' = IF n.look.kind = "none" THEN gate
               ELSE [gate EXCEPT ![n.look.kind] =
                        [key |-> n.look.key,
                         state |-> IF n.look.found THEN "present" ELSE "absent"]]
    /\ faults' = faults + n.fault
    /\ hist' = n.hist
    /\ UNCHANGED <<gl, args, budget, run>>

\* return from the active call
Ret(n) == [n EXCEPT !.pc = Head(stk), !.stk = Tail(stk)]

\* call the function that starts at label f and continue at label back
Call(n, f, back) == [n EXCEPT !.pc = f, !.stk = <<back>> \o stk]

\* an exception nobody catches: it unwinds to main, whose finally closes the session,
\* and the interpreter ends the process with status 1
Crash(n) == [n EXCEPT !.pc = "crashed", !.stk = <<>>, !.look = NoLook, !.hist.exit = <<1>>]

NoUser == [user |-> Empty, pw |-> FALSE]

-----------------------------------------------------------------------------
(* tools/user_import.py: ensure_user_exists *)

\* the lookup as it would be if it never found the user
user_found_never(status) == FALSE

\* line 104: the user is there when the lookup answers OK
user_found(status) == status = "OK"

\* one call of ensure_user_exists: the username, what the target held and what the
\* lookup answered, what the create request answered, and what the call returned
EuCall(username, o, ok) ==
    [user |-> username, held |-> username \in fg.users,
     lookup |-> IF o = "exc" THEN "RAISED" ELSE IF ok THEN "OK"
                ELSE IF o = "truth" THEN "NOT_FOUND" ELSE "ERROR",
     create |-> "none", ret |-> <<>>]

\* the call returns the pair (user, temporary password)
Returned(n, pair) ==
    [n EXCEPT !.loc.ret = pair, !.hist.eu[Len(n.hist.eu)].ret = <<pair>>]

\* lines 99-108: the lookup by username
EuGet ==
    /\ pc = "eu_get"
    /\ LET username == Strip(loc.u) IN
       IF username = Empty
       THEN Commit(Ret([B EXCEPT !.loc.ret = NoUser]))
       ELSE \E o \in Answers(username \in fg.users) :
            LET ok == Ok(o, username \in fg.users)
                n  == [B EXCEPT !.req = Req("get", "user", username, <<>>),
                                !.look = Look("user", username, ok),
                                !.fault = Fault(o),
                                !.loc.u = username,
                                !.hist.eu = Append(@, EuCall(username, o, ok))]
            IN  IF o = "exc" THEN Commit(Crash(n))
                ELSE IF user_found(Status(o, username \in fg.users))
                THEN Commit(Ret(Returned(n, [user |-> username, pw |-> FALSE])))
                ELSE Commit([n EXCEPT !.pc = "eu_create"])

\* migrate_projects.py lines 409-501: the positions to which the calls made for an
\* issue's author and assignees return
IssueCalls == {"iss_author_collab", "iss_assignee", "iss_assignee_collab",
               "iss_assignees", "iss_assignees_collab"}

\* the user, with the issue it is provisioned for, when it is provisioned for one
ForIssue(u) ==
    IF stk # <<>> /\ stk[Len(stk)] \in IssueCalls
    THEN {[user |-> u, project |-> loc.eligible[loc.p], issue |-> loc.j]}
    ELSE {}

\* the test of the create response as it would be if every status passed it
user_created_always(status) == TRUE

\* line 125: the user was created when the create request answers CREATED
user_created(status) == status = "CREATED"

\* lines 110-126 and 136-143: the create-user request and its failure path
EuCreate ==
    /\ pc = "eu_create"
    /\ \E o \in Answers(loc.u \notin fg.users) :
       LET ok == Ok(o, loc.u \notin fg.users)
           n  == [B EXCEPT !.req = Req("create", "user", loc.u,
                                       [notify |-> loc.notify, password |-> "random"]),
                           !.fault = Fault(o),
                           !.hist.eu[Len(hist.eu)].create =
                               IF o = "exc" THEN "RAISED" ELSE Created(o, loc.u \notin fg.users)]
       IN  IF o = "exc" THEN Commit(Crash(n))
           ELSE IF user_created(Created(o, loc.u \notin fg.users))
           THEN Commit([n EXCEPT !.fg.users = @ \cup {loc.u}, !.pc = "eu_refetch"])
           ELSE Commit(Ret(Returned([n EXCEPT !.errs = << <<"failed to create user", loc.u>> >>,
                                              !.hist.rejected = @ \cup ForIssue(loc.u)],
                                    NoUser)))

\* lines 128-134: the created user is fetched again
EuRefetch ==
    /\ pc = "eu_refetch"
    /\ \E o \in Answers(loc.u \in fg.users) :
       LET ok == Ok(o, loc.u \in fg.users)
           n  == [B EXCEPT !.req = Req("get", "user", loc.u, <<>>), !.fault = Fault(o)]
       IN  IF o = "exc" THEN Commit(Crash(n))
           ELSE Commit(Ret(Returned(n, [user |-> IF ok THEN loc.u ELSE Empty, pw |-> TRUE])))

-----------------------------------------------------------------------------
(* migrate.py: main *)

\* main selects the passes; each pass is modelled as migrate_users.py with
\* tools/user_import.py, migrate_organizations.py and migrate_projects.py define it.

\* the selection as it would be if every pass were run whatever the command line says
Selected_always(what) == TRUE

\* lines 95-99: a pass is run when it is named or when all are asked for
Selected(what) == args[what] \/ args.all

\* lines 95-96: the users pass, if asked for
MainUsers ==
    /\ pc = "main"
    /\ Commit([B EXCEPT !.pc = IF Selected("users") THEN "users_loop" ELSE "main_groups",
                        !.loc.pass = IF Selected("users") THEN "users" ELSE @,
                        !.loc.i = 1])

\* lines 97-98: the groups pass, if asked for
MainGroups ==
    /\ pc = "main_groups"
    /\ Commit([B EXCEPT !.pc = IF Selected("groups") THEN "groups_loop" ELSE "main_projects",
                        !.loc.pass = IF Selected("groups") THEN "groups" ELSE @,
                        !.loc.i = 1])

\* lines 99-100: the projects pass, if asked for
MainProjects ==
    /\ pc = "main_projects"
    /\ Commit([B EXCEPT !.pc = IF Selected("projects") THEN "load_projects" ELSE "main_report",
                        !.loc.pass = IF Selected("projects") THEN "projects" ELSE @])

NothingSelected ==
    ~args.users /\ ~args.groups /\ ~args.projects /\ ~args.all

\* line 111: sys.exit() without an argument, and lines 120-122: main returns and the
\* module ends; either way the process ends with status 0
exit_status == 0

\* line 114: the run is reported as a success when the counter is zero
reports_success(count) == count = 0

\* lines 102-122: nothing selected, or the final report; then the process ends
MainReport ==
    /\ pc = "main_report"
    /\ IF NothingSelected
       THEN Commit([B EXCEPT !.pc = "exited", !.warns = 1, !.hist.report = "nothing",
                             !.hist.exit = <<exit_status>>])
       ELSE IF reports_success(GLOBAL_ERROR_COUNT)
       THEN Commit([B EXCEPT !.pc = "done", !.hist.report = "success",
                             !.hist.exit = <<exit_status>>])
       ELSE Commit([B EXCEPT !.pc = "done", !.hist.report = "errors", !.errs = <<NoTag>>,
                             !.hist.printed = GLOBAL_ERROR_LIST,
                             !.hist.exit = <<exit_status>>])

-----------------------------------------------------------------------------
(* migrate_users.py and tools/user_import.py: the users pass *)

\* the importer identity provisioned with the notification option of the command line
importer_notify_as_users == args.notify

\* migrate_users.py line 14: ensure_importer_user(fg_client, notify=False)
importer_notify == FALSE

\* migrate_users.py lines 13-14 and 24-28: next user; the importer identity first
UsersLoop ==
    /\ pc = "users_loop"
    /\ IF loc.i > Len(gl.users)
       THEN Commit([B EXCEPT !.pc = "main_groups"])
       ELSE Commit(Call([B EXCEPT !.loc.u = Importer, !.loc.notify = importer_notify],
                        "eu_get", "user_one"))

\* user_import.py lines 194-221: the full user is read from the source, then provisioned
UserOne ==
    /\ pc = "user_one"
    /\ LET username == Strip(gl.users[loc.i].username) IN
       IF username = Empty
       THEN Commit([B EXCEPT !.pc = "users_loop", !.loc.i = @ + 1])
       ELSE \E s \in SourceAnswers :
            Commit(Call([B EXCEPT !.loc.u = username, !.loc.notify = args.notify,
                                  !.fault = Fault(s),
                                  !.errs = IF s = "truth" THEN <<>>
                                           ELSE << <<"failed to fetch full user", username>> >>],
                        "eu_get", "user_keys"))

\* user_import.py lines 223-232: the user's keys are read from the source
UserKeys ==
    /\ pc = "user_keys"
    /\ \E s \in SourceAnswers :
       Commit([B EXCEPT !.pc = "user_key_loop", !.loc.j = 1,
                        !.loc.u = Strip(gl.users[loc.i].username),
                        !.loc.keys = IF s = "truth" THEN gl.users[loc.i].keys ELSE <<>>,
                        !.fault = Fault(s),
                        !.errs = IF s = "truth" THEN <<>>
                                 ELSE << <<"failed to load keys for user",
                                           Strip(gl.users[loc.i].username)>> >>])

\* user_import.py lines 72-82: a key of that title is among the user's keys
user_key_exists(existing_keys, keyname) == keyname \in existing_keys

\* user_import.py lines 60-69 and 162-163: the user's keys are listed for the next key
UserKeyLoop ==
    /\ pc = "user_key_loop"
    /\ IF loc.j > Len(loc.keys)
       THEN Commit([B EXCEPT !.pc = "users_loop", !.loc.i = @ + 1])
       ELSE \E o \in Answers(loc.u \in fg.users) :
            LET ok    == Ok(o, loc.u \in fg.users)
                key   == <<loc.u, loc.keys[loc.j]>>
                existing_keys == IF ok THEN {k \in fg.keys : k[1] = loc.u} ELSE {}
                found == key \in existing_keys
                n     == [B EXCEPT !.req = Req("list", "key", <<loc.u>>, <<>>),
                                   !.look = Look("key", key, found),
                                   !.fault = Fault(o),
                                   !.errs = IF ok THEN <<>>
                                            ELSE << <<"failed to load user keys for user", loc.u>> >>]
            IN  IF o = "exc" THEN Commit(Crash([n EXCEPT !.errs = <<>>]))
                ELSE IF user_key_exists(existing_keys, key)
                THEN Commit([n EXCEPT !.warns = 1, !.loc.j = @ + 1])
                ELSE Commit([n EXCEPT !.pc = "user_key_create"])

\* user_import.py lines 164-184: the create-key request
UserKeyCreate ==
    /\ pc = "user_key_create"
    /\ \E o \in Answers(loc.u \in fg.users) :
       LET ok  == Ok(o, loc.u \in fg.users)
           key == <<loc.u, loc.keys[loc.j]>>
           n   == [B EXCEPT !.req = Req("create", "key", key, <<>>),
                            !.fault = Fault(o),
                            !.pc = "user_key_loop", !.loc.j = @ + 1]
       IN  IF o = "exc" THEN Commit(Crash(n))
           ELSE IF ok
           THEN Commit([n EXCEPT !.fg.keys = @ \cup {key}])
           ELSE Commit([n EXCEPT !.errs = << <<"failed to import key", key>> >>])

-----------------------------------------------------------------------------
(* migrate_organizations.py: the groups pass *)

Group == gl.groups[loc.i]
clean_group_name == name_clean(Group.name)

\* lines 28-34: the organization is there when the lookup answers OK
organization_exists(status) == status = "OK"

\* lines 133-148: the group's members are read, then the organization is looked up
GroupsLoop ==
    /\ pc = "groups_loop"
    /\ IF loc.i > Len(gl.groups)
       THEN Commit([B EXCEPT !.pc = "main_projects"])
       ELSE \E s \in SourceAnswers, o \in Answers(clean_group_name \in fg.orgs) :
            LET ok == Ok(o, clean_group_name \in fg.orgs)
                n  == [B EXCEPT !.req = Req("get", "org", clean_group_name, <<>>),
                                !.look = Look("org", clean_group_name, ok),
                                !.fault = Fault(o)]
            IN  IF s # "truth"
                THEN o = "truth" /\ Commit(Crash([B EXCEPT !.fault = Fault(s)]))
                ELSE IF o = "exc" THEN Commit(Crash(n))
                ELSE IF organization_exists(Status(o, clean_group_name \in fg.orgs))
                THEN Commit([n EXCEPT !.warns = 1, !.pc = "grp_teams"])
                ELSE Commit([n EXCEPT !.pc = "grp_create"])

\* lines 149-165: the create-organization request
GroupCreate ==
    /\ pc = "grp_create"
    /\ \E o \in Answers(clean_group_name \notin fg.orgs) :
       LET ok == Ok(o, clean_group_name \notin fg.orgs)
           n  == [B EXCEPT !.req = Req("create", "org", clean_group_name, <<>>),
                           !.fault = Fault(o), !.pc = "grp_teams"]
       IN  IF o = "exc" THEN Commit(Crash(n))
           ELSE IF ok
           THEN Commit([n EXCEPT !.fg.orgs = @ \cup {clean_group_name}])
           ELSE Commit([n EXCEPT !.errs = << <<"failed to import group", clean_group_name>> >>])

\* lines 37-43 and 99-111: get_teams; the members go to the organization's first team
GroupTeams ==
    /\ pc = "grp_teams"
    /\ \E o \in Answers(clean_group_name \in fg.orgs) :
       LET ok == Ok(o, clean_group_name \in fg.orgs)
           n  == [B EXCEPT !.req = Req("list", "team", <<clean_group_name>>, <<>>),
                           !.fault = Fault(o)]
       IN  IF o = "exc" THEN Commit(Crash(n))
           ELSE IF ok
           THEN Commit([n EXCEPT !.pc = "grp_member_loop", !.loc.j = 1])
           ELSE Commit([n EXCEPT !.pc = "groups_loop", !.loc.i = @ + 1,
                                 !.errs = <<NoTag,
                                            <<"failed to import members to group: no teams found",
                                              clean_group_name>> >>])

Member == Group.members[loc.j]

\* lines 68-70: _ensure_user_exists_by_username has its user when the lookup answers OK
member_user_found(status) == status = "OK"

\* lines 113-118 and 64-70: next member; _ensure_user_exists_by_username looks the user up
GroupMemberLoop ==
    /\ pc = "grp_member_loop"
    /\ IF loc.j > Len(Group.members)
       THEN Commit([B EXCEPT !.pc = "groups_loop", !.loc.i = @ + 1])
       ELSE IF Member = Empty
       THEN Commit([B EXCEPT !.loc.j = @ + 1])
       ELSE \E o \in Answers(Member \in fg.users) :
            LET ok == Ok(o, Member \in fg.users)
                n  == [B EXCEPT !.req = Req("get", "user", Member, <<>>),
                                !.look = Look("user", Member, ok),
                                !.fault = Fault(o)]
            IN  IF o = "exc" THEN Commit(Crash(n))
                ELSE Commit([n EXCEPT !.pc = IF member_user_found(Status(o, Member \in fg.users))
                                             THEN "gm_member_exists" ELSE "gm_user_create"])

\* lines 72-89: _ensure_user_exists_by_username creates the user with the fixed password
GroupMemberUserCreate ==
    /\ pc = "gm_user_create"
    /\ \E o \in Answers(Member \notin fg.users) :
       LET ok == Ok(o, Member \notin fg.users)
           n  == [B EXCEPT !.req = Req("create", "user", Member,
                                       [notify |-> FALSE, password |-> "Tmp1!ChangeMe12345"]),
                           !.fault = Fault(o)]
       IN  IF o = "exc" THEN Commit(Crash(n))
           ELSE IF ok
           THEN Commit([n EXCEPT !.fg.users = @ \cup {Member}, !.pc = "gm_member_exists"])
           ELSE Commit([n EXCEPT !.errs = << <<"failed to create user", Member>> >>,
                                 !.pc = "grp_member_loop", !.loc.j = @ + 1])

\* lines 54-61: the username is among the team's members
member_exists(existing_members, username) == username \in existing_members

\* lines 46-51 and 120: the team's members are listed
GroupMemberExists ==
    /\ pc = "gm_member_exists"
    /\ \E o \in Answers(clean_group_name \in fg.orgs) :
       LET ok    == Ok(o, clean_group_name \in fg.orgs)
           key   == <<clean_group_name, Member>>
           existing_members == IF ok THEN {m \in fg.members : m[1] = clean_group_name} ELSE {}
           found == key \in existing_members
           n     == [B EXCEPT !.req = Req("list", "member", <<clean_group_name>>, <<>>),
                              !.look = Look("member", key, found),
                              !.fault = Fault(o),
                              !.errs = IF ok THEN <<>> ELSE <<NoTag>>]
       IN  IF o = "exc" THEN Commit(Crash([n EXCEPT !.errs = <<>>]))
           ELSE IF member_exists(existing_members, key)
           THEN Commit([n EXCEPT !.warns = 1, !.pc = "grp_member_loop", !.loc.j = @ + 1])
           ELSE Commit([n EXCEPT !.pc = "gm_member_put"])

\* lines 121-131: the team-membership request
GroupMemberPut ==
    /\ pc = "gm_member_put"
    /\ \E o \in Answers(clean_group_name \in fg.orgs /\ Member \in fg.users) :
       LET ok  == Ok(o, clean_group_name \in fg.orgs /\ Member \in fg.users)
           key == <<clean_group_name, Member>>
           n   == [B EXCEPT !.req = Req("create", "member", key, <<>>),
                            !.fault = Fault(o),
                            !.pc = "grp_member_loop", !.loc.j = @ + 1]
       IN  IF o = "exc" THEN Commit(Crash(n))
           ELSE IF ok
           THEN Commit([n EXCEPT !.fg.members = @ \cup {key}])
           ELSE Commit([n EXCEPT !.errs = << <<"failed to add member to group", key>> >>])

-----------------------------------------------------------------------------
(* migrate_projects.py: the projects pass *)

min_access_level == 30

\* the access level as it would be if the group's were left out
_extract_access_level_project(project) == project.project_access

\* _extract_access_level, lines 823-836
_extract_access_level(project) ==
    IF project.project_access >= project.group_access
    THEN project.project_access ELSE project.group_access

Indices(s) == [i \in 1..Len(s) |-> i]

\* _load_eligible_membership_projects, lines 782-795: the projects whose details load
\* and whose access level is high enough, in the order the source lists them
EligibleProjects(unloadable) ==
    SelectSeq(Indices(gl.projects),
              LAMBDA i : /\ i \notin unloadable
                         /\ _extract_access_level(gl.projects[i]) >= min_access_level)

NoOwner == [kind |-> "none", name |-> Empty]

\* per kind, the listings requested by the import loop of that kind for one repository
NoListings == [kind \in {"label", "milestone", "issue"} |-> 0]
NoOwnerHist == [pre |-> [users |-> {}, orgs |-> {}], res |-> NoOwner, state |-> "none",
                truthful |-> TRUE, made |-> <<>>]

\* import_projects, lines 730-737, and _safe_get_full_project, lines 810-820
LoadProjects ==
    /\ pc = "load_projects"
    /\ \E unloadable \in SUBSET (1..Len(gl.projects)) :
       /\ Cardinality(unloadable) <= budget - faults
       /\ Commit([B EXCEPT !.pc = "proj_loop",
                           !.loc.p = 1,
                           !.loc.eligible = EligibleProjects(unloadable),
                           !.fault = Cardinality(unloadable),
                           !.hist.unloaded = unloadable,
                           !.errs = [k \in 1..Cardinality(unloadable) |->
                                       <<"failed to load project details">>]])

PIdx == loc.eligible[loc.p]
Proj == gl.projects[PIdx]
clean_repo == name_clean(Proj.name)

\* lines 170-173
ns_path == IF Proj.ns.path # Empty THEN Proj.ns.path ELSE Proj.ns.name
ns_name == IF Proj.ns.name # Empty THEN Proj.ns.name ELSE ns_path
ns_kind == Proj.ns.kind

SourceLists == {"collaborators", "labels", "milestones", "issues"}

\* lines 736-737 and 847-861, with _load_project_gitlab_data, lines 884-931
ProjLoop ==
    /\ pc = "proj_loop"
    /\ IF loc.p > Len(loc.eligible)
       THEN Commit([B EXCEPT !.pc = "main_report"])
       ELSE \E failed \in SUBSET SourceLists :
            /\ Cardinality(failed) <= budget - faults
            /\ Commit([B EXCEPT
                 !.pc = "own_user_get",
                 !.loc.data = [k \in SourceLists |-> IF k \in failed THEN <<>> ELSE Proj[k]],
                 !.loc.owner = NoOwner,
                 !.fault = Cardinality(failed),
                 !.errs = [k \in 1..Cardinality(failed) |-> <<"failed to load", clean_repo>>],
                 !.hist.visited = @ \cup {PIdx},
                 !.hist.listings = NoListings,
                 !.hist.own[PIdx] = [NoOwnerHist EXCEPT
                                        !.pre = [users |-> fg.users, orgs |-> fg.orgs],
                                        !.state = "resolving"]])

\* the caller as it would be if it went on to the repository without an owner
OwnerFailed_goes_on(n, resolverErrs) ==
    [n EXCEPT !.pc = "repo_exists",
              !.errs = resolverErrs \o
                       << <<"failed to load or create user/org", ns_name>>,
                          <<"project failed to load owner", clean_repo>> >>,
              !.hist.own[PIdx].state = "failed"]

\* the callers as they would be if only the project driver logged the missing owner
OwnerFailed_logged_once(n, resolverErrs) ==
    [n EXCEPT !.pc = "proj_loop", !.loc.p = @ + 1,
              !.errs = resolverErrs \o << <<"project failed to load owner", clean_repo>> >>,
              !.hist.own[PIdx].state = "failed"]

\* get_user_or_group, lines 288-296, and _import_one_project_full, lines 864-869:
\* without an owner both log an error and the project is left
OwnerFailed(n, resolverErrs) ==
    [n EXCEPT !.pc = "proj_loop", !.loc.p = @ + 1,
              !.errs = resolverErrs \o
                       << <<"failed to load or create user/org", ns_name>>,
                          <<"project failed to load owner", clean_repo>> >>,
              !.hist.own[PIdx].state = "failed"]

\* the caller as it would be if it went from the owner straight to the labels
OwnerFound_to_labels(n, kind, name) ==
    [n EXCEPT !.pc = "lab_loop", !.loc.j = 1,
              !.loc.owner = [kind |-> kind, name |-> name],
              !.hist.own[PIdx].res = [kind |-> kind, name |-> name],
              !.hist.own[PIdx].state = "found"]

\* _import_one_project_full, lines 871-874: with an owner, the repository comes next
OwnerFound(n, kind, name) ==
    [n EXCEPT !.pc = "repo_exists",
              !.loc.owner = [kind |-> kind, name |-> name],
              !.hist.own[PIdx].res = [kind |-> kind, name |-> name],
              !.hist.own[PIdx].state = "found"]

OwnerStep(n, o) == [n EXCEPT !.fault = Fault(o),
                             !.hist.own[PIdx].truthful = @ /\ o = "truth"]

\* the username as it would be if the resolver normalized it
owner_user_key_clean(path) == name_clean(path)

\* the username the resolver looks up and creates: the namespace path as it is
owner_user_key(path) == path

\* the organization name the resolver looks up and creates
owner_org_key(path) == name_clean(path)

\* line 179: the namespace has its user when the lookup answers OK
owner_is_user(status) == status = "OK"

\* line 184: the namespace has its organization when the lookup answers OK
owner_is_org(status) == status = "OK"

\* the kind test as it would be if no kind counted as a group
creates_org_never(kind) == FALSE

\* the kind test as it would be if every kind counted as a group
creates_org_always(kind) == TRUE

\* line 187: a namespace of kind group gets an organization, any other a user
creates_org(kind) == kind = "group"

\* _ensure_owner_exists, lines 175-180: step 1, the user
OwnUserGet ==
    /\ pc = "own_user_get"
    /\ IF ns_path = Empty
       THEN Commit(OwnerFailed(B, <<>>))
       ELSE \E o \in Answers(owner_user_key(ns_path) \in fg.users) :
            LET key == owner_user_key(ns_path)
                ok  == Ok(o, key \in fg.users)
                n   == OwnerStep([B EXCEPT !.req = Req("get", "user", key, <<>>),
                                           !.look = Look("user", key, ok)], o)
            IN  IF o = "exc" THEN Commit(Crash(n))
                ELSE IF owner_is_user(Status(o, key \in fg.users))
                THEN Commit(OwnerFound(n, "user", key))
                ELSE Commit([n EXCEPT !.pc = "own_org_get"])

\* lines 182-187 and 212: step 2, the organization; then the kind decides what is created
OwnOrgGet ==
    /\ pc = "own_org_get"
    /\ \E o \in Answers(owner_org_key(ns_path) \in fg.orgs) :
       LET key == owner_org_key(ns_path)
           ok  == Ok(o, key \in fg.orgs)
           n   == OwnerStep([B EXCEPT !.req = Req("get", "org", key, <<>>),
                                      !.look = Look("org", key, ok)], o)
       IN  IF o = "exc" THEN Commit(Crash(n))
           ELSE IF owner_is_org(Status(o, key \in fg.orgs))
           THEN Commit(OwnerFound(n, "org", key))
           ELSE Commit([n EXCEPT !.pc = IF creates_org(ns_kind) THEN "own_org_create"
                                                                ELSE "own_user_create"])

\* lines 188-201 and 205-210: step 3, the organization is created
OwnOrgCreate ==
    /\ pc = "own_org_create"
    /\ \E o \in Answers(owner_org_key(ns_path) \notin fg.orgs) :
       LET key == owner_org_key(ns_path)
           ok  == Ok(o, key \notin fg.orgs)
           n   == OwnerStep([B EXCEPT !.req = Req("create", "org", key,
                                                  [full_name |-> ns_name]),
                                      !.hist.own[PIdx].made = Append(@, "org")], o)
       IN  IF o = "exc" THEN Commit(Crash(n))
           ELSE IF ok
           THEN Commit([n EXCEPT !.fg.orgs = @ \cup {key}, !.pc = "own_org_refetch"])
           ELSE Commit(OwnerFailed(n, << <<"failed to create group", key>> >>))

\* lines 202-210: the created organization is fetched again
OwnOrgRefetch ==
    /\ pc = "own_org_refetch"
    /\ \E o \in Answers(owner_org_key(ns_path) \in fg.orgs) :
       LET key == owner_org_key(ns_path)
           ok  == Ok(o, key \in fg.orgs)
           n   == OwnerStep([B EXCEPT !.req = Req("get", "org", key, <<>>)], o)
       IN  IF o = "exc" THEN Commit(Crash(n))
           ELSE IF ok THEN Commit(OwnerFound(n, "org", key))
           ELSE Commit(OwnerFailed(n, << <<"failed to create group", key>> >>))

\* lines 212-230 and 234-238: step 4, the personal namespace's user is created
OwnUserCreate ==
    /\ pc = "own_user_create"
    /\ \E o \in Answers(owner_user_key(ns_path) \notin fg.users) :
       LET key == owner_user_key(ns_path)
           ok  == Ok(o, key \notin fg.users)
           n   == OwnerStep([B EXCEPT !.req = Req("create", "user", key,
                                                  [notify |-> FALSE, password |-> "random"]),
                                      !.hist.own[PIdx].made = Append(@, "user")], o)
       IN  IF o = "exc" THEN Commit(Crash(n))
           ELSE IF ok
           THEN Commit([n EXCEPT !.fg.users = @ \cup {key}, !.pc = "own_user_refetch"])
           ELSE Commit(OwnerFailed(n, << <<"failed to create user", key>> >>))

\* lines 231-238: the created user is fetched again
OwnUserRefetch ==
    /\ pc = "own_user_refetch"
    /\ \E o \in Answers(owner_user_key(ns_path) \in fg.users) :
       LET key == owner_user_key(ns_path)
           ok  == Ok(o, key \in fg.users)
           n   == OwnerStep([B EXCEPT !.req = Req("get", "user", key, <<>>)], o)
       IN  IF o = "exc" THEN Commit(Crash(n))
           ELSE IF ok THEN Commit(OwnerFound(n, "user", key))
           ELSE Commit(OwnerFailed(n, << <<"failed to create user", key>> >>))

-----------------------------------------------------------------------------
(* migrate_projects.py: _import_project_repo *)

attempts == 3

forgejo_owner == loc.owner.name
RepoKey == <<forgejo_owner, clean_repo>>

\* the retry test as it would be with <= in place of <
attempts_remain_inclusive(attempt) == attempt <= attempts

\* line 645: another attempt follows a timeout only while attempts remain
attempts_remain(attempt) == attempt < attempts

\* the wait as it would be if it were the same after every attempt
backoff_seconds_fixed(attempt) == 5

\* line 646
backoff_seconds(attempt) == 5 * attempt

\* repo_exists as it would be if it took every answer for a miss
repo_exists_never(status) == FALSE

\* lines 102-110: the repository is there when the lookup answers OK
repo_exists(status) == status = "OK"

\* the retrying handler as it would be if it took every transport exception
is_read_timeout_any(o) == o \in {"timeout", "exc"}

\* line 630: the handler that looks the repository up and retries takes read timeouts
is_read_timeout(o) == o = "timeout"

\* the post-timeout lookup as it would be if its answer were ignored
now_exists_never(status) == FALSE

\* line 637: after a timeout the repository counts as imported when the lookup answers OK
now_exists(status) == status = "OK"

\* the error as it would be if every timed-out attempt logged it
timeout_errors_each(attempt, proj_name) == << <<"project import timed out", proj_name>> >>

\* lines 645-653 and 662-665: a timed-out attempt logs the error once none remains
timeout_errors(attempt, proj_name) ==
    IF attempts_remain(attempt) THEN <<>>
    ELSE << <<"project import timed out", proj_name>> >>

\* lines 583-587: the repository is looked up before anything is sent
RepoExists ==
    /\ pc = "repo_exists"
    /\ \E o \in Answers(RepoKey \in fg.repos) :
       LET ok == Ok(o, RepoKey \in fg.repos)
           n  == [B EXCEPT !.req = Req("get", "repo", RepoKey, <<>>),
                           !.look = Look("repo", RepoKey, ok),
                           !.fault = Fault(o)]
       IN  IF o = "exc" THEN Commit(Crash(n))
           ELSE IF repo_exists(Status(o, RepoKey \in fg.repos))
           THEN Commit([n EXCEPT !.warns = 1, !.pc = "col_loop", !.loc.j = 1,
                                 !.hist.res[PIdx] = "exists"])
           ELSE Commit([n EXCEPT !.pc = "repo_migrate", !.loc.attempt = 1])

\* the answers to the migrate request: it succeeds or is rejected, or the read times
\* out while the target goes on importing, or the transport fails otherwise
MigrateAnswers ==
    {"truth"} \cup
    (IF faults < budget
     THEN (IF RepoKey \notin fg.repos THEN {"bad"} ELSE {}) \cup {"timeout", "exc"}
     ELSE {})

\* lines 612-631 and 655-660: one migrate request
RepoMigrate ==
    /\ pc = "repo_migrate"
    /\ \E o \in MigrateAnswers :
       LET ok == Ok(o, RepoKey \notin fg.repos)
           n  == [B EXCEPT !.req = Req("create", "repo", RepoKey,
                                       [attempt |-> loc.attempt, sudo |-> forgejo_owner,
                                        private |-> Proj.visibility \in {"private", "internal"}]),
                           !.fault = Fault(o),
                           !.fg.pending = IF o = "timeout" /\ RepoKey \notin fg.repos
                                          THEN @ \cup {RepoKey} ELSE @,
                           !.hist.mig[PIdx] = Append(@, IF ok THEN "ok"
                                                        ELSE IF o = "timeout" THEN "timeout"
                                                        ELSE IF o = "exc" THEN "error"
                                                        ELSE "rejected")]
       IN  IF ok
           THEN Commit([n EXCEPT !.fg.repos = @ \cup {RepoKey},
                                 !.fg.pending = @ \ {RepoKey},
                                 !.hist.res[PIdx] = "imported",
                                 !.pc = "col_loop", !.loc.j = 1])
           ELSE IF o \in {"timeout", "exc"} /\ is_read_timeout(o)
           THEN Commit([n EXCEPT !.pc = "repo_check"])
           ELSE IF o \in {"timeout", "exc"}
           THEN Commit([n EXCEPT !.errs = << <<"project import request failed", clean_repo>> >>,
                                 !.hist.res[PIdx] = "request_failed",
                                 !.pc = "col_loop", !.loc.j = 1])
           ELSE Commit([n EXCEPT !.errs = << <<"project import failed", clean_repo>> >>,
                                 !.hist.res[PIdx] = "rejected",
                                 !.pc = "col_loop", !.loc.j = 1])

\* lines 633-653 and 662-665: after a timeout the repository is looked up again
RepoCheck ==
    /\ pc = "repo_check"
    /\ \E o \in Answers(RepoKey \in fg.repos) :
       LET ok == Ok(o, RepoKey \in fg.repos)
           n  == [B EXCEPT !.req = Req("get", "repo", RepoKey, <<>>),
                           !.look = IF o = "exc" THEN NoLook ELSE Look("repo", RepoKey, ok),
                           !.fault = Fault(o),
                           !.hist.chk[PIdx] = Append(@, IF ok THEN "present"
                                                        ELSE IF o = "truth" THEN "absent"
                                                        ELSE "unknown")]
       IN  IF now_exists(Status(o, RepoKey \in fg.repos))
           THEN Commit([n EXCEPT !.warns = 1, !.pc = "col_loop", !.loc.j = 1,
                                 !.hist.res[PIdx] = "reclassified"])
           ELSE IF attempts_remain(loc.attempt)
           THEN Commit([n EXCEPT !.warns = 1,
                                 !.errs = timeout_errors(loc.attempt, clean_repo),
                                 !.hist.slept[PIdx] = Append(@, backoff_seconds(loc.attempt)),
                                 !.loc.attempt = @ + 1,
                                 !.pc = "repo_migrate"])
           ELSE Commit([n EXCEPT !.errs = timeout_errors(loc.attempt, clean_repo),
                                 !.hist.res[PIdx] = "timed_out",
                                 !.pc = "col_loop", !.loc.j = 1])

\* The target finishes, on its own, an import whose request timed out.
ImportCompletes ==
    /\ pc \notin {"done", "crashed", "exited"}
    /\ \E r \in fg.pending :
       /\ fg' = [fg EXCEPT !.repos = @ \cup {r}, !.pending = @ \ {r}]
       /\ lastReq' = NoSent
       /\ UNCHANGED <<gl, args, budget, pc, stk, loc, GLOBAL_ERROR_COUNT, GLOBAL_ERROR_LIST,
                      warnCount, sent, gate, faults, hist, run>>

-----------------------------------------------------------------------------
(* migrate_projects.py: collaborators *)

RepoThere == RepoKey \in fg.repos

IsCollaborator(u) == \E c \in fg.collabs : c.repo = RepoKey /\ c.user = u

\* a collaborator grant replaces the permission the user had on the repository
Granted(collabs, u, permission) ==
    {c \in collabs : ~(c.repo = RepoKey /\ c.user = u)}
        \cup {[repo |-> RepoKey, user |-> u, perm |-> permission]}

\* the mapping as it would be if every level were granted as read
permission_for_read(access_level) == "read"

\* lines 698-708: the source access level as a target permission
permission_for(access_level) ==
    IF access_level \in {10, 20} THEN "read"
    ELSE IF access_level = 30 THEN "write"
    ELSE IF access_level \in {40, 50} THEN "admin"
    ELSE "read"

supported_access_level(access_level) == access_level \in {10, 20, 30, 40, 50}

\* lines 676-695: next collaborator; its user is provisioned first
CollabLoop ==
    /\ pc = "col_loop"
    /\ IF loc.j > Len(loc.data.collaborators)
       THEN Commit([B EXCEPT !.pc = "lab_loop", !.loc.j = 1])
       ELSE LET username == Strip(loc.data.collaborators[loc.j].username) IN
            IF username = Empty
            THEN Commit([B EXCEPT !.loc.j = @ + 1])
            ELSE Commit(Call([B EXCEPT !.loc.u = username, !.loc.notify = FALSE],
                             "eu_get", "col_exists"))

\* lines 95-99: the user is a collaborator when the lookup answers OK
collaborator_exists(status) == status = "OK"

\* lines 89-96: the collaborator lookup, as both importers send it
CollaboratorLookup(o) ==
    [B EXCEPT !.req = Req("get", "collab", <<RepoKey, loc.u>>, <<>>),
              !.look = Look("collab", <<RepoKey, loc.u>>, Ok(o, RepoThere /\ IsCollaborator(loc.u))),
              !.warns = IF collaborator_exists(Status(o, RepoThere /\ IsCollaborator(loc.u)))
                        THEN 1 ELSE 0,
              !.fault = Fault(o)]

\* line 697
CollabExists ==
    /\ pc = "col_exists"
    /\ \E o \in Answers(RepoThere /\ IsCollaborator(loc.u)) :
       LET n == CollaboratorLookup(o) IN
       IF o = "exc" THEN Commit(Crash(n))
       ELSE IF collaborator_exists(Status(o, RepoThere /\ IsCollaborator(loc.u)))
       THEN Commit([n EXCEPT !.pc = "col_loop", !.loc.j = @ + 1])
       ELSE Commit([n EXCEPT !.pc = "col_put"])

\* lines 698-721: the collaborator grant with the mapped permission
CollabPut ==
    /\ pc = "col_put"
    /\ \E o \in Answers(RepoThere /\ loc.u \in fg.users) :
       LET ok     == Ok(o, RepoThere /\ loc.u \in fg.users)
           level  == loc.data.collaborators[loc.j].access_level
           n      == [B EXCEPT !.req = Req("create", "collab", <<RepoKey, loc.u>>,
                                           [permission |-> permission_for(level),
                                            sudo |-> forgejo_owner]),
                               !.warns = IF supported_access_level(level) THEN 0 ELSE 1,
                               !.fault = Fault(o),
                               !.pc = "col_loop", !.loc.j = @ + 1]
       IN  IF o = "exc" THEN Commit(Crash(n))
           ELSE IF ok
           THEN Commit([n EXCEPT !.fg.collabs = Granted(@, loc.u, permission_for(level))])
           ELSE Commit([n EXCEPT !.errs = << <<"failed to import collaborator",
                                               <<RepoKey, loc.u>> >> >>])

-----------------------------------------------------------------------------
(* migrate_projects.py: _ensure_collaborator_with_permission *)

\* lines 250-261: nothing for an empty username; else the user is provisioned
EcStart ==
    /\ pc = "ec_start"
    /\ IF loc.u = Empty
       THEN Commit(Ret(B))
       ELSE Commit(Call([B EXCEPT !.loc.notify = FALSE], "eu_get", "ec_exists"))

\* lines 263-264
EcExists ==
    /\ pc = "ec_exists"
    /\ \E o \in Answers(RepoThere /\ IsCollaborator(loc.u)) :
       LET n == CollaboratorLookup(o) IN
       IF o = "exc" THEN Commit(Crash(n))
       ELSE IF collaborator_exists(Status(o, RepoThere /\ IsCollaborator(loc.u)))
       THEN Commit(Ret(n))
       ELSE Commit([n EXCEPT !.pc = "ec_put"])

\* lines 266-279: the read grant for an issue's author or assignee
EcPut ==
    /\ pc = "ec_put"
    /\ \E o \in Answers(RepoThere /\ loc.u \in fg.users) :
       LET ok == Ok(o, RepoThere /\ loc.u \in fg.users)
           n  == [B EXCEPT !.req = Req("create", "collab", <<RepoKey, loc.u>>,
                                       [permission |-> loc.perm, sudo |-> forgejo_owner]),
                           !.fault = Fault(o)]
       IN  IF o = "exc" THEN Commit(Crash(n))
           ELSE IF ok
           THEN Commit(Ret([n EXCEPT !.fg.collabs = Granted(@, loc.u, loc.perm)]))
           ELSE Commit(Ret([n EXCEPT !.errs = << <<"failed to add collaborator",
                                                   <<RepoKey, loc.u>> >> >>]))

-----------------------------------------------------------------------------
(* migrate_projects.py: labels and milestones *)

\* the listing request of one kind for the repository, as get_labels, get_milestones
\* and get_issues send it: a failure is logged and read as an empty listing
Listing(kind, o) ==
    [B EXCEPT !.req = Req("list", kind, RepoKey, <<>>),
              !.fault = Fault(o),
              !.errs = IF Ok(o, RepoThere) \/ o = "exc" THEN <<>> ELSE <<NoTag>>]

LabelKey(name) == <<RepoKey, name>>

\* label_exists as it would be if it never found the name
label_exists_never(existing_labels, labelname) == FALSE

\* lines 113-127: a label of that name is in the listing
label_exists(existing_labels, labelname) == labelname \in existing_labels

\* lines 130-147: a milestone of that title is in the listing
milestone_exists(existing_milestones, milestone) == milestone \in existing_milestones

\* lines 150-162: an issue of that title is in the listing
issue_exists(existing_issues, issue) == issue \in existing_issues

\* lines 305-306 and 113-127: label_exists for the next label
LabelLoop ==
    /\ pc = "lab_loop"
    /\ IF loc.j > Len(loc.data.labels)
       THEN Commit([B EXCEPT !.pc = "ms_loop", !.loc.j = 1])
       ELSE \E o \in Answers(RepoThere) :
            LET key   == LabelKey(loc.data.labels[loc.j])
                existing_labels == IF Ok(o, RepoThere)
                                   THEN {k \in fg.labels : k[1] = RepoKey} ELSE {}
                n     == [Listing("label", o) EXCEPT
                             !.look = Look("label", key, key \in existing_labels),
                             !.hist.listings["label"] = @ + 1]
            IN  IF o = "exc" THEN Commit(Crash(n))
                ELSE IF label_exists(existing_labels, key) THEN Commit([n EXCEPT !.warns = 1, !.loc.j = @ + 1])
                ELSE Commit([n EXCEPT !.pc = "lab_post"])

\* lines 307-319: the create-label request
LabelPost ==
    /\ pc = "lab_post"
    /\ \E o \in Answers(RepoThere) :
       LET ok  == Ok(o, RepoThere)
           key == LabelKey(loc.data.labels[loc.j])
           n   == [B EXCEPT !.req = Req("create", "label", key, [sudo |-> forgejo_owner]),
                            !.fault = Fault(o),
                            !.pc = "lab_loop", !.loc.j = @ + 1]
       IN  IF o = "exc" THEN Commit(Crash(n))
           ELSE IF ok THEN Commit([n EXCEPT !.fg.labels = @ \cup {key}])
           ELSE Commit([n EXCEPT !.errs = <<NoTag>>])

Milestone == loc.data.milestones[loc.j]
MilestoneKey(title) == <<RepoKey, title>>

\* The target lists the items in the state the request names, and the open ones when
\* it names none.
Listed(items, state) ==
    {x.key : x \in {y \in items : state = "all"
                                     \/ y.state = (IF state = "none" THEN "open" ELSE state)}}

\* lines 60-64: get_milestones names no state
milestones_state == "none"

\* line 77: get_issues asks for every state
issues_state == "all"

MilestoneTitles == Listed(fg.milestones, milestones_state)

\* the source's milestone state as the target takes it: closed, or else left open
target_state(state) == IF state = "closed" THEN "closed" ELSE "open"

\* lines 328-329 and 130-147: milestone_exists for the next milestone
MilestoneLoop ==
    /\ pc = "ms_loop"
    /\ IF loc.j > Len(loc.data.milestones)
       THEN Commit([B EXCEPT !.pc = "iss_get_ms"])
       ELSE \E o \in Answers(RepoThere) :
            LET key   == MilestoneKey(Milestone.title)
                existing_milestones == IF Ok(o, RepoThere)
                                       THEN {k \in MilestoneTitles : k[1] = RepoKey} ELSE {}
                n     == [Listing("milestone", o) EXCEPT
                             !.look = Look("milestone", key, key \in existing_milestones),
                             !.hist.listings["milestone"] = @ + 1]
            IN  IF o = "exc" THEN Commit(Crash(n))
                ELSE IF milestone_exists(existing_milestones, key) THEN Commit([n EXCEPT !.warns = 1, !.loc.j = @ + 1])
                ELSE Commit([n EXCEPT !.pc = "ms_post"])

\* lines 330-347 and 366-369: the create-milestone request; the target opens it
MilestonePost ==
    /\ pc = "ms_post"
    /\ \E o \in Answers(RepoThere) :
       LET ok  == Ok(o, RepoThere)
           key == MilestoneKey(Milestone.title)
           n   == [B EXCEPT !.req = Req("create", "milestone", key, [sudo |-> forgejo_owner]),
                            !.fault = Fault(o)]
       IN  IF o = "exc" THEN Commit(Crash(n))
           ELSE IF ok
           THEN Commit([n EXCEPT !.fg.milestones =
                                     @ \cup {[key |-> key, state |-> "open",
                                              id |-> Cardinality(fg.milestones) + 1]},
                                 !.loc.msid = Cardinality(fg.milestones) + 1,
                                 !.pc = "ms_patch"])
           ELSE Commit([n EXCEPT !.errs = <<NoTag>>, !.pc = "ms_loop", !.loc.j = @ + 1])

\* the state of the update request as it would be if every milestone were sent as open
update_state_open(milestone) == "open"

\* line 356: the update request carries the state the source gives the milestone
update_state(milestone) == milestone.state

\* lines 349-365: the update request that carries the state
MilestonePatch ==
    /\ pc = "ms_patch"
    /\ \E o \in Answers(RepoThere /\ \E m \in fg.milestones : m.id = loc.msid) :
       LET ok  == Ok(o, RepoThere /\ \E m \in fg.milestones : m.id = loc.msid)
           key == MilestoneKey(Milestone.title)
           n   == [B EXCEPT !.req = Req("update", "milestone", key,
                                        [state |-> update_state(Milestone), sudo |-> forgejo_owner]),
                            !.fault = Fault(o),
                            !.pc = "ms_loop", !.loc.j = @ + 1]
       IN  IF o = "exc" THEN Commit(Crash(n))
           ELSE IF ok
           THEN Commit([n EXCEPT !.fg.milestones =
                            {m \in @ : m.id # loc.msid}
                                \cup {[key |-> key, state |-> target_state(Milestone.state),
                                        id |-> loc.msid]}])
           ELSE Commit([n EXCEPT !.errs = <<NoTag>>])

-----------------------------------------------------------------------------
(* migrate_projects.py: issues *)

Issue == loc.data.issues[loc.j]
IssueKey(title) == <<RepoKey, title>>
IssueTitles == Listed(fg.issues, issues_state)

\* lines 438-450: the usernames of the assignees that have one
RECURSIVE Usernames(_)
Usernames(s) ==
    IF s = <<>> THEN <<>>
    ELSE IF Strip(Head(s)) = Empty THEN Usernames(Tail(s))
    ELSE <<Strip(Head(s))>> \o Usernames(Tail(s))

assignee == Strip(Issue.assignee)
assignees == Usernames(Issue.assignees)

\* the author as it would be without the importer identity to fall back on
author_username_as_given(issue) == Strip(issue.author)

\* lines 389-400: the author's username, or the importer identity
author_username(issue) ==
    IF Strip(issue.author) = Empty THEN Importer ELSE Strip(issue.author)

\* line 380: the repository's milestones are listed once, before the issues
IssueGetMilestones ==
    /\ pc = "iss_get_ms"
    /\ \E o \in Answers(RepoThere) :
       LET n == Listing("milestone", o) IN
       IF o = "exc" THEN Commit(Crash(n))
       ELSE Commit([n EXCEPT !.pc = "iss_get_labels",
                             !.loc.exMs = IF Ok(o, RepoThere)
                                          THEN {k \in MilestoneTitles : k[1] = RepoKey} ELSE {}])

\* lines 381-383: so are its labels; then the importer identity is provisioned
IssueGetLabels ==
    /\ pc = "iss_get_labels"
    /\ \E o \in Answers(RepoThere) :
       LET n == Listing("label", o) IN
       IF o = "exc" THEN Commit(Crash(n))
       ELSE Commit(Call([n EXCEPT !.loc.exLabels = IF Ok(o, RepoThere)
                                                   THEN {k \in fg.labels : k[1] = RepoKey} ELSE {},
                                  !.loc.u = Importer, !.loc.notify = FALSE, !.loc.j = 1],
                        "eu_get", "iss_loop"))

\* lines 385-417 and 150-162: issue_exists for the next issue, then its author's user
IssueLoop ==
    /\ pc = "iss_loop"
    /\ IF loc.j > Len(loc.data.issues)
       THEN Commit([B EXCEPT !.pc = "proj_loop", !.loc.p = @ + 1])
       ELSE \E o \in Answers(RepoThere) :
            LET key   == IssueKey(Issue.title)
                existing_issues == IF Ok(o, RepoThere)
                                   THEN {k \in IssueTitles : k[1] = RepoKey} ELSE {}
                n     == [Listing("issue", o) EXCEPT
                             !.look = Look("issue", key, key \in existing_issues),
                             !.hist.listings["issue"] = @ + 1]
            IN  IF o = "exc" THEN Commit(Crash(n))
                ELSE IF issue_exists(existing_issues, key) THEN Commit([n EXCEPT !.warns = 1, !.loc.j = @ + 1])
                ELSE Commit(Call([n EXCEPT !.loc.author = author_username(Issue),
                                           !.loc.u = author_username(Issue),
                                           !.loc.notify = FALSE],
                                 "eu_get", "iss_author_collab"))

\* lines 418-426: the author becomes a collaborator with read permission
IssueAuthorCollab ==
    /\ pc = "iss_author_collab"
    /\ Commit(Call([B EXCEPT !.loc.u = loc.author, !.loc.perm = "read"],
                   "ec_start", "iss_assignee"))

\* lines 432-436 and 452-466: the single assignee's user
IssueAssignee ==
    /\ pc = "iss_assignee"
    /\ IF assignee = Empty
       THEN Commit([B EXCEPT !.pc = "iss_assignees", !.loc.k = 1])
       ELSE Commit(Call([B EXCEPT !.loc.u = assignee, !.loc.notify = FALSE],
                        "eu_get", "iss_assignee_collab"))

\* lines 467-475
IssueAssigneeCollab ==
    /\ pc = "iss_assignee_collab"
    /\ Commit(Call([B EXCEPT !.loc.u = assignee, !.loc.perm = "read", !.loc.k = 1],
                   "ec_start", "iss_assignees"))

\* lines 477-492: the user of the next of the assignees
IssueAssignees ==
    /\ pc = "iss_assignees"
    /\ IF loc.k > Len(assignees)
       THEN Commit([B EXCEPT !.pc = "iss_post"])
       ELSE Commit(Call([B EXCEPT !.loc.u = assignees[loc.k], !.loc.notify = FALSE],
                        "eu_get", "iss_assignees_collab"))

\* lines 493-501
IssueAssigneesCollab ==
    /\ pc = "iss_assignees_collab"
    /\ Commit(Call([B EXCEPT !.loc.u = assignees[loc.k], !.loc.perm = "read", !.loc.k = @ + 1],
                   "ec_start", "iss_assignees"))

\* The target creates an issue for a user that exists and may write to the repository,
MayAct(u) == RepoThere /\ u \in fg.users /\ (IsCollaborator(u) \/ u = forgejo_owner)

\* and it rejects assignees that are no users with access to the repository.
AssigneesValid(named) == \A a \in named : a \in fg.users /\ (IsCollaborator(a) \/ a = forgejo_owner)

Named(one, many) == (IF one = Empty THEN {} ELSE {one}) \cup Range(many)

\* what the target truthfully answers to a create-issue request
IssueTruth(by, named) ==
    IF ~MayAct(by) THEN "rejected"
    ELSE IF ~AssigneesValid(named) THEN "assignee"
    ELSE "ok"

IssueAnswers(truth) ==
    {"truth"} \cup
    (IF faults < budget THEN ({"rejected", "assignee"} \ {truth}) \cup {"exc"} ELSE {})

\* lines 503-537: the label and milestone references, resolved in the listings fetched once
IssuePayload(one, many) ==
    [assignee |-> one, assignees |-> many, sudo |-> loc.author,
     labels |-> {l \in Range(Issue.labels) : LabelKey(l) \in loc.exLabels},
     milestone |-> IF Issue.milestone # Empty /\ MilestoneKey(Issue.milestone) \in loc.exMs
                   THEN Issue.milestone ELSE Empty,
     closed |-> Issue.state = "closed"]

\* the test of the failure text as it would be if no text passed it
mentions_assignee_never(answer) == FALSE

\* line 550: the failure text mentions an assignee
mentions_assignee(answer) == answer = "assignee"

\* lines 539-550 and 571-574: the create-issue request, sent as the author
IssuePost ==
    /\ pc = "iss_post"
    /\ \E o \in IssueAnswers(IssueTruth(loc.author, Named(assignee, assignees))) :
       LET answer == IF o = "truth" THEN IssueTruth(loc.author, Named(assignee, assignees)) ELSE o
           key    == IssueKey(Issue.title)
           n      == [B EXCEPT !.req = Req("create", "issue", key, IssuePayload(assignee, assignees)),
                               !.fault = Fault(o),
                               !.hist.posts = Append(@, [key |-> key, answer |-> answer,
                                                         body |-> IssuePayload(assignee, assignees)])]
       IN  IF o = "exc" THEN Commit(Crash(n))
           ELSE IF answer = "ok"
           THEN Commit([n EXCEPT !.fg.issues = @ \cup {[key |-> key, by |-> loc.author,
                                                        assignees |-> Named(assignee, assignees),
                                                        state |-> target_state(Issue.state)]},
                                 !.pc = "iss_loop", !.loc.j = @ + 1])
           ELSE IF mentions_assignee(answer)
           THEN Commit([n EXCEPT !.pc = "iss_post_fallback"])
           ELSE Commit([n EXCEPT !.errs = << <<"failed to import issue", Issue.title>> >>,
                                 !.pc = "iss_loop", !.loc.j = @ + 1])

\* lines 551-569: the one retry, with the assignees cleared
IssuePostFallback ==
    /\ pc = "iss_post_fallback"
    /\ \E o \in Answers(MayAct(loc.author)) :
       LET ok  == Ok(o, MayAct(loc.author))
           key == IssueKey(Issue.title)
           n   == [B EXCEPT !.req = Req("create", "issue", key, IssuePayload(Empty, <<>>)),
                            !.fault = Fault(o),
                            !.hist.posts = Append(@, [key |-> key,
                                                      answer |-> IF ok THEN "ok" ELSE
                                                                 IF o = "exc" THEN "exc" ELSE "rejected",
                                                      body |-> IssuePayload(Empty, <<>>)]),
                            !.pc = "iss_loop", !.loc.j = @ + 1]
       IN  IF o = "exc" THEN Commit(Crash(n))
           ELSE IF ok
           THEN Commit([n EXCEPT !.fg.issues = @ \cup {[key |-> key, by |-> loc.author,
                                                        assignees |-> {},
                                                        state |-> target_state(Issue.state)]},
                                 !.warns = 1])
           ELSE Commit([n EXCEPT !.errs = << <<"failed to import issue", Issue.title>> >>])

-----------------------------------------------------------------------------
(* The process, started on a source and a target *)

NoLocals ==
    [pass |-> "none",
     i |-> 1, j |-> 1, k |-> 1, p |-> 1, u |-> Empty, notify |-> FALSE, perm |-> "read",
     ret |-> NoUser, keys |-> <<>>, eligible |-> <<>>,
     data |-> [x \in SourceLists |-> <<>>], owner |-> NoOwner, attempt |-> 1,
     author |-> Empty, exMs |-> {}, exLabels |-> {}, msid |-> 0]

NoHistory(source) ==
    [mig     |-> [x \in 1..Len(source.projects) |-> <<>>],
     chk     |-> [x \in 1..Len(source.projects) |-> <<>>],
     slept   |-> [x \in 1..Len(source.projects) |-> <<>>],
     own     |-> [x \in 1..Len(source.projects) |-> NoOwnerHist],
     res     |-> [x \in 1..Len(source.projects) |-> "none"],
     first   |-> 0,
     posts   |-> <<>>,
     eu      |-> <<>>,
     printed |-> <<>>,
     exit    |-> <<>>,
     rejected |-> {},
     listings |-> NoListings,
     unloaded |-> {},
     visited |-> {},
     report  |-> "none"]

EmptyTarget ==
    [users |-> {}, orgs |-> {}, repos |-> {}, pending |-> {}, collabs |-> {}, labels |-> {},
     milestones |-> {}, issues |-> {}, members |-> {}, keys |-> {}]

\* a process is started: nothing is logged, nothing was sent
Started(source, arguments, target, allowed) ==
    /\ gl = source
    /\ args = arguments
    /\ budget = allowed
    /\ fg = target
    /\ pc = "main"
    /\ stk = <<>>
    /\ loc = NoLocals
    /\ GLOBAL_ERROR_COUNT = 0
    /\ GLOBAL_ERROR_LIST = <<>>
    /\ warnCount = 0
    /\ lastReq = NoSent
    /\ sent = [x \in Kinds |-> 0]
    /\ gate = [x \in Kinds |-> NoGate]
    /\ faults = 0
    /\ hist = NoHistory(source)
    /\ run = 1

\* The process is run a second time on the same source and on the target as the
\* first run left it, after a first run that met no failure.
Rerun ==
    /\ pc = "done"
    /\ run = 1
    /\ faults = 0
    /\ run' = 2
    /\ pc' = "main"
    /\ stk' = <<>>
    /\ loc' = NoLocals
    /\ GLOBAL_ERROR_COUNT' = 0
    /\ GLOBAL_ERROR_LIST' = <<>>
    /\ warnCount' = 0
    /\ lastReq' = NoSent
    /\ sent' = [x \in Kinds |-> 0]
    /\ gate' = [x \in Kinds |-> NoGate]
    /\ hist' = [NoHistory(gl) EXCEPT !.first = GLOBAL_ERROR_COUNT]
    /\ UNCHANGED <<gl, args, budget, fg, faults>>

-----------------------------------------------------------------------------
(* Sources and command lines the process is started on *)

alice == <<"a","l","i">>
bob == <<"b","o","b">>
bug == <<"b","u","g">>
m1 == <<"m","1">>
i1 == <<"i","1">>
k1 == <<"k","1">>

TeamA == [name |-> <<"T"," ","A">>, path |-> <<"t","-","a">>, kind |-> "group"]
BobNs == [name |-> <<"B","o","b">>, path |-> bob, kind |-> "user"]

\* a project with one item of every kind
FullProject(ns) ==
    [name |-> <<"M"," ","R","!">>, ns |-> ns, visibility |-> "private",
     project_access |-> 40, group_access |-> 0,
     collaborators |-> << [username |-> alice, access_level |-> 30] >>,
     labels |-> <<bug>>,
     milestones |-> << [title |-> m1, state |-> "closed"] >>,
     issues |-> << [title |-> i1, author |-> bob, assignee |-> alice, assignees |-> <<alice>>,
                    labels |-> <<bug>>, milestone |-> m1, state |-> "opened"] >>]

\* a project with nothing but its repository
BareProject(name, ns) ==
    [name |-> name, ns |-> ns, visibility |-> "public",
     project_access |-> 30, group_access |-> 0,
     collaborators |-> <<>>, labels |-> <<>>, milestones |-> <<>>, issues |-> <<>>]

FullSource(ns) ==
    [users    |-> << [username |-> alice, keys |-> <<k1>>] >>,
     groups   |-> << [name |-> <<"T"," ","A">>, members |-> <<bob>>] >>,
     projects |-> << FullProject(ns) >>]

AllPasses == [users |-> FALSE, groups |-> FALSE, projects |-> FALSE, all |-> TRUE, notify |-> FALSE]

\* the command lines: each pass named or not, without --all; and --all with no pass
\* named and with every pass named
CommandLines ==
    {c \in {[users |-> u, groups |-> g, projects |-> p, all |-> a, notify |-> FALSE] :
               u \in BOOLEAN, g \in BOOLEAN, p \in BOOLEAN, a \in BOOLEAN} :
        c.all => (c.users = c.groups /\ c.groups = c.projects)}

Init ==
    \E ns \in {TeamA, BobNs}, arguments \in CommandLines :
        Started(FullSource(ns), arguments, EmptyTarget, MaxFaults)

Next ==
    \/ MainUsers \/ MainGroups \/ MainProjects \/ MainReport
    \/ UsersLoop \/ UserOne \/ UserKeys \/ UserKeyLoop \/ UserKeyCreate
    \/ EuGet \/ EuCreate \/ EuRefetch
    \/ GroupsLoop \/ GroupCreate \/ GroupTeams
    \/ GroupMemberLoop \/ GroupMemberUserCreate \/ GroupMemberExists \/ GroupMemberPut
    \/ LoadProjects \/ ProjLoop
    \/ OwnUserGet \/ OwnOrgGet \/ OwnOrgCreate \/ OwnOrgRefetch \/ OwnUserCreate \/ OwnUserRefetch
    \/ RepoExists \/ RepoMigrate \/ RepoCheck \/ ImportCompletes
    \/ CollabLoop \/ CollabExists \/ CollabPut
    \/ EcStart \/ EcExists \/ EcPut
    \/ LabelLoop \/ LabelPost \/ MilestoneLoop \/ MilestonePost \/ MilestonePatch
    \/ IssueGetMilestones \/ IssueGetLabels \/ IssueLoop
    \/ IssueAuthorCollab \/ IssueAssignee \/ IssueAssigneeCollab
    \/ IssueAssignees \/ IssueAssigneesCollab \/ IssuePost \/ IssuePostFallback
    \/ Rerun

Spec == Init /\ [][Next]_vars

\* the command lines with and without --notify: every pass, the users pass alone, no pass
NotifyLines ==
    {[c EXCEPT !.notify = n] : n \in BOOLEAN,
                               c \in {l \in CommandLines : l.all \/ (~l.groups /\ ~l.projects)}}

InitNotify ==
    \E ns \in {TeamA, BobNs}, arguments \in NotifyLines :
        Started(FullSource(ns), arguments, EmptyTarget, MaxFaults)

SpecNotify == InitNotify /\ [][Next]_vars

-----------------------------------------------------------------------------
(* Runs of the projects pass alone, on projects that have nothing but a repository *)

ProjectsOnly == [users |-> FALSE, groups |-> FALSE, projects |-> TRUE, all |-> FALSE,
                 notify |-> FALSE]

r1 == <<"r","1">>
r2 == <<"r"," ","2">>

RepoSource ==
    [users |-> <<>>, groups |-> <<>>,
     projects |-> << BareProject(r1, BobNs), BareProject(r2, TeamA) >>]

\* the target of an earlier run that was stopped after the first repository
PartlyMigrated == [EmptyTarget EXCEPT !.users = {bob}, !.repos = {<<bob, name_clean(r1)>>}]

InitRepo ==
    \E target \in {EmptyTarget, PartlyMigrated} :
        Started(RepoSource, ProjectsOnly, target, MaxRepoFaults)

\* the steps of the process in a run of the projects pass
Migration ==
    \/ MainUsers \/ MainGroups \/ MainProjects \/ MainReport
    \/ LoadProjects \/ ProjLoop
    \/ OwnUserGet \/ OwnOrgGet \/ OwnOrgCreate \/ OwnOrgRefetch \/ OwnUserCreate \/ OwnUserRefetch
    \/ RepoExists \/ RepoMigrate \/ RepoCheck
    \/ CollabLoop \/ LabelLoop \/ MilestoneLoop
    \/ IssueGetMilestones \/ IssueGetLabels \/ IssueLoop
    \/ EuGet \/ EuCreate \/ EuRefetch

NextRepo == Migration \/ ImportCompletes

SpecRepo == InitRepo /\ [][NextRepo]_vars

\* one project in a personal namespace, on an empty target
RetrySource == [users |-> <<>>, groups |-> <<>>, projects |-> << BareProject(r1, BobNs) >>]

InitRetry == Started(RetrySource, ProjectsOnly, EmptyTarget, MaxRepoFaults)

\* the steps of the process in that run
MigrationRetry ==
    \/ MainUsers \/ MainGroups \/ MainProjects \/ MainReport
    \/ LoadProjects \/ ProjLoop
    \/ OwnUserGet \/ OwnOrgGet \/ OwnUserCreate \/ OwnUserRefetch
    \/ RepoExists \/ RepoMigrate \/ RepoCheck
    \/ CollabLoop \/ LabelLoop \/ MilestoneLoop
    \/ IssueGetMilestones \/ IssueGetLabels \/ IssueLoop
    \/ EuGet \/ EuCreate \/ EuRefetch

NextRetry == MigrationRetry \/ ImportCompletes

\* the process is a sequential program that keeps running: its next step is taken;
\* nothing is assumed of the target's own import
FairRetry == InitRetry /\ [][NextRetry]_vars /\ WF_vars(MigrationRetry)

-----------------------------------------------------------------------------
(* Runs of the projects pass on one namespace and a target that may hold its owner *)

plugins == <<"p","l","u","g","i","n","s">>

PluginsNs == [name |-> plugins, path |-> plugins, kind |-> "user"]
PluginsGroup == [name |-> plugins, path |-> plugins, kind |-> "group"]

OwnerNamespaces == {TeamA, BobNs, PluginsNs, PluginsGroup}

OwnerSource(ns) ==
    [users |-> <<>>, groups |-> <<>>, projects |-> << BareProject(r1, ns) >>]

\* the names the target can hold: name_clean leaves them as they are
TargetNames(ns) == {x \in {ns.path, name_clean(ns.path)} : name_clean(x) = x}

InitOwner ==
    \E ns \in OwnerNamespaces :
    \E us \in SUBSET TargetNames(ns), os \in SUBSET TargetNames(ns) :
        /\ us \cap os = {}
        /\ Started(OwnerSource(ns), ProjectsOnly,
                   [EmptyTarget EXCEPT !.users = us, !.orgs = os], MaxFaults)

SpecOwner == InitOwner /\ [][NextRepo]_vars

\* a namespace without a path and without a name
NoNs == [name |-> Empty, path |-> Empty, kind |-> "user"]

\* a project of the namespace without a path, and one of a group or of a user
PathlessSource(ns) ==
    [users |-> <<>>, groups |-> <<>>,
     projects |-> << BareProject(r1, NoNs), BareProject(r2, ns) >>]

InitPathless ==
    \E ns \in {TeamA, BobNs} :
        Started(PathlessSource(ns), ProjectsOnly, EmptyTarget, MaxFaults)

SpecPathless == InitPathless /\ [][NextRepo]_vars

-----------------------------------------------------------------------------
(* Runs of the projects pass on one project that has an item of every kind *)

\* the project's collaborator has the given access level on the source
ProjectSource(ns, level) ==
    [users |-> <<>>, groups |-> <<>>,
     projects |-> << [FullProject(ns) EXCEPT
                         !.collaborators = << [username |-> alice, access_level |-> level] >>] >>]

\* a level the importer maps, and one it does not know
ProjectLevels == {30, 5}

\* the target of an earlier run, on which alice was since made an administrator of
\* the repository
Migrated(ns) ==
    LET owner == IF ns.kind = "group" THEN name_clean(ns.path) ELSE ns.path
        repo  == <<owner, name_clean(FullProject(ns).name)>>
    IN  [EmptyTarget EXCEPT
            !.users = {alice, bob, Importer},
            !.orgs = IF ns.kind = "group" THEN {owner} ELSE {},
            !.repos = {repo},
            !.collabs = {[repo |-> repo, user |-> alice, perm |-> "admin"]}]

InitProject ==
    \E ns \in {TeamA, BobNs} :
    \E target \in {EmptyTarget, Migrated(ns)}, level \in ProjectLevels :
        Started(ProjectSource(ns, level), ProjectsOnly, target, MaxProjectFaults)

\* the steps of the process in a run of the projects pass on such a project
MigrationProject ==
    \/ Migration
    \/ CollabExists \/ CollabPut \/ EcStart \/ EcExists \/ EcPut
    \/ LabelPost \/ MilestonePost \/ MilestonePatch
    \/ IssueAuthorCollab \/ IssueAssignee \/ IssueAssigneeCollab
    \/ IssueAssignees \/ IssueAssigneesCollab \/ IssuePost \/ IssuePostFallback

NextProject == MigrationProject \/ ImportCompletes

SpecProject == InitProject /\ [][NextProject]_vars

-----------------------------------------------------------------------------
(* Runs of the projects pass on two projects that have an item of every kind *)

TwoProjects ==
    [users |-> <<>>, groups |-> <<>>,
     projects |-> << FullProject(BobNs), [FullProject(TeamA) EXCEPT !.name = r2] >>]

InitTwo == Started(TwoProjects, ProjectsOnly, EmptyTarget, MaxFaults)

SpecTwo == InitTwo /\ [][NextProject]_vars

-----------------------------------------------------------------------------
(* Runs of the projects pass on two projects on which the user has any access level *)

\* no access, reporter, developer and maintainer, as the source numbers them
MemberLevels == {0, 20, 30, 40}

AccessSource(levels) ==
    [users |-> <<>>, groups |-> <<>>,
     projects |-> << [BareProject(r1, BobNs) EXCEPT !.project_access = levels[1],
                                                    !.group_access = levels[2]],
                     [BareProject(r2, TeamA) EXCEPT !.project_access = levels[3],
                                                    !.group_access = levels[4]] >>]

InitAccess ==
    \E levels \in [1..4 -> MemberLevels] :
        Started(AccessSource(levels), ProjectsOnly, EmptyTarget, MaxFaults)

SpecAccess == InitAccess /\ [][NextRepo]_vars

-----------------------------------------------------------------------------
(* Runs of the projects pass on one project that has two items of every kind *)

ui == <<"u","i">>
m2 == <<"m","2">>
i2 == <<"i","2">>

TwoOfEach(ns) ==
    [FullProject(ns) EXCEPT
        !.labels = <<bug, ui>>,
        !.milestones = << [title |-> m1, state |-> "closed"], [title |-> m2, state |-> "active"] >>,
        !.issues = << FullProject(ns).issues[1],
                      [title |-> i2, author |-> Empty, assignee |-> Empty, assignees |-> <<>>,
                       labels |-> <<ui>>, milestone |-> m2, state |-> "closed"] >>]

ListsSource(ns) == [users |-> <<>>, groups |-> <<>>, projects |-> << TwoOfEach(ns) >>]

InitLists ==
    \E ns \in {TeamA, BobNs} :
        Started(ListsSource(ns), ProjectsOnly, EmptyTarget, MaxFaults)

SpecLists == InitLists /\ [][NextProject]_vars

-----------------------------------------------------------------------------
(* Runs of the projects pass on two projects of one namespace whose names differ in
   characters that name_clean replaces *)

\* "M R!" and "M_R-": two names of the source, one name after name_clean
ClashSource(ns) ==
    [users |-> <<>>, groups |-> <<>>,
     projects |-> << FullProject(ns),
                     [TwoOfEach(ns) EXCEPT !.name = <<"M","_","R","-">>] >>]

InitClash ==
    \E ns \in {TeamA, BobNs} :
        Started(ClashSource(ns), ProjectsOnly, EmptyTarget, MaxFaults)

SpecClash == InitClash /\ [][NextProject]_vars

-----------------------------------------------------------------------------
(* Runs of the projects pass on one project whose lists name every item twice *)

\* a label, a closed milestone and an issue, each of them twice in the source's list
Doubled(ns) ==
    [FullProject(ns) EXCEPT
        !.labels = <<bug, bug>>,
        !.milestones = << [title |-> m1, state |-> "closed"], [title |-> m1, state |-> "closed"] >>,
        !.issues = << FullProject(ns).issues[1], FullProject(ns).issues[1] >>]

DoubledSource(ns) == [users |-> <<>>, groups |-> <<>>, projects |-> << Doubled(ns) >>]

InitDoubled ==
    \E ns \in {TeamA, BobNs} :
        Started(DoubledSource(ns), ProjectsOnly, EmptyTarget, MaxFaults)

SpecDoubled == InitDoubled /\ [][NextProject]_vars

-----------------------------------------------------------------------------
(* Runs of the projects pass on one project whose name and group path are any name *)

\* a lower-case and an upper-case letter, a digit, the blank, the three other
\* characters of the class, and two characters outside it
NameChars == {"a", "B", "7", " ", "_", ".", "-", "!", "/"}

RECURSIVE NamesOfLen(_)
NamesOfLen(k) ==
    IF k = 0 THEN {<<>>}
    ELSE {Append(s, c) : s \in NamesOfLen(k - 1), c \in NameChars}

\* the short names, and the reserved name in three spellings and with a blank in it
Names ==
    UNION {NamesOfLen(k) : k \in 1..MaxNameLen}
        \cup {plugins, <<"P","l","u","g","i","n","s">>, <<"P","L","U","G","I","N","S">>,
              <<"p","l","u","g"," ","i","n","s">>}

NameSource(name) ==
    [users |-> <<>>, groups |-> <<>>,
     projects |-> << BareProject(name, [name |-> name, path |-> name, kind |-> "group"]) >>]

InitName == \E name \in Names : Started(NameSource(name), ProjectsOnly, EmptyTarget, 0)

\* the steps of the process in that run, in which every request is answered truthfully
MigrationName ==
    \/ MainUsers \/ MainGroups \/ MainProjects \/ MainReport
    \/ LoadProjects \/ ProjLoop
    \/ OwnUserGet \/ OwnOrgGet \/ OwnOrgCreate \/ OwnOrgRefetch
    \/ RepoExists \/ RepoMigrate
    \/ CollabLoop \/ LabelLoop \/ MilestoneLoop
    \/ IssueGetMilestones \/ IssueGetLabels \/ IssueLoop
    \/ EuGet \/ EuCreate \/ EuRefetch

SpecName == InitName /\ [][MigrationName]_vars

-----------------------------------------------------------------------------
(* Runs of the projects pass on one project with one collaborator of any access level *)

\* the access levels of the source, and two values that are none of them
AccessLevels == {0, 5, 10, 20, 30, 40, 50, 60}

CollabSource(ns, level) ==
    [users |-> <<>>, groups |-> <<>>,
     projects |-> << [BareProject(r1, ns) EXCEPT
                         !.collaborators = << [username |-> alice, access_level |-> level] >>] >>]

InitCollab ==
    \E ns \in {TeamA, BobNs}, level \in AccessLevels :
        Started(CollabSource(ns, level), ProjectsOnly, EmptyTarget, MaxFaults)

NextCollab == NextRepo \/ CollabExists \/ CollabPut

SpecCollab == InitCollab /\ [][NextCollab]_vars

-----------------------------------------------------------------------------
(* Properties of a run *)

Projects == 1..Len(gl.projects)

\* a create request of the kind was sent by the step
CreateSent(kind) == lastReq'.op = "create" /\ lastReq'.kind = kind

\* the latest lookup of the kind was for the key and reported it absent
GateAbsent(kind, key) == gate[kind] = [key |-> key, state |-> "absent"]

\* C1: a second full run, started on the target that a first full run without a
\* failure left behind and answered truthfully, sends no create request of any kind
\* and logs no error.
C1_SecondRunCreatesNothing ==
    (run = 2 /\ args.all /\ hist.first = 0 /\ faults = 0) =>
        /\ \A kind \in Kinds : sent[kind] = 0
        /\ GLOBAL_ERROR_COUNT = 0
        /\ GLOBAL_ERROR_LIST = <<>>

SilentLookup == lastReq'.kind = "user" \/ pc = "own_org_get"

RepoTags == {"project import failed", "project import request failed",
             "project import timed out"}

\* the error records logged for the repository of project p
RepoErrors(p) ==
    Cardinality({i \in 1..Len(GLOBAL_ERROR_LIST) :
                    /\ GLOBAL_ERROR_LIST[i][1] \in RepoTags
                    /\ GLOBAL_ERROR_LIST[i][2] = name_clean(gl.projects[p].name)})

\* C4: when the first attempt times out with the repository absent at its lookup and
\* the second times out with the repository present at its lookup, the import ends
\* as a success after exactly two migrate requests and no error is logged for it.
C4_SecondTimeoutReclassified ==
    \A p \in Projects :
        hist.chk[p] = <<"absent", "present">> =>
            /\ hist.mig[p] = <<"timeout", "timeout">>
            /\ hist.res[p] = "reclassified"
            /\ RepoErrors(p) = 0

\* the run has ended after such an import
C4_Witness ==
    /\ pc = "done"
    /\ \E p \in Projects :
          hist.chk[p] = <<"absent", "present">> /\ hist.res[p] = "reclassified"

InRepo == pc \in {"repo_exists", "repo_migrate", "repo_check"}

\* C5: whatever the attempts' outcomes, at most 3 migrate requests are sent for a
\* repository, and the import of a repository always returns.
C5_AtMostThreeAndReturns ==
    /\ [](\A p \in Projects : Len(hist.mig[p]) <= 3)
    /\ (InRepo ~> ~InRepo)

\* a third request was sent and the import has returned
C5_Witness ==
    \E p \in Projects : Len(hist.mig[p]) = 3 /\ hist.res[p] # "none" /\ ~InRepo

\* C6: a migrate request that fails with a transport error other than a read
\* timeout is the last one sent for the repository, and exactly one error record is
\* logged for the repository.
C6_TransportErrorIsFinal ==
    \A p \in Projects : \A i \in 1..Len(hist.mig[p]) :
        hist.mig[p][i] = "error" =>
            /\ i = Len(hist.mig[p])
            /\ hist.res[p] = "request_failed"
            /\ RepoErrors(p) = 1

\* the second attempt met the transport error, and the run has ended
C6_Witness ==
    /\ pc = "done"
    /\ \E p \in Projects : hist.mig[p] = <<"timeout", "error">>

\* C7: when all 3 attempts time out and the repository is absent at each lookup that
\* follows, exactly one error record is logged for the repository, the process goes
\* on, and a run that ends has visited every eligible project.
C7_ExhaustionLogsOnceAndGoesOn ==
    \A p \in Projects :
        hist.chk[p] = <<"absent", "absent", "absent">> =>
            /\ hist.mig[p] = <<"timeout", "timeout", "timeout">>
            /\ hist.res[p] = "timed_out"
            /\ RepoErrors(p) = 1
            /\ faults = 3 => pc # "crashed"
            /\ pc = "done" => \A i \in 1..Len(loc.eligible) : loc.eligible[i] \in hist.visited

\* the first project's attempts were exhausted and the second was imported
C7_Witness ==
    /\ pc = "done"
    /\ hist.chk[1] = <<"absent", "absent", "absent">>
    /\ hist.res[2] = "imported"

PathOf(ns) == IF ns.path # Empty THEN ns.path ELSE ns.name
Ns(p) == gl.projects[p].ns
Resolved(p) == hist.own[p].state \in {"found", "failed"}

\* what the resolver returns and creates when it looks the user up under userKey
Precedence(p, userKey) ==
    LET o      == hist.own[p]
        orgKey == name_clean(PathOf(Ns(p)))
    IN  IF userKey \in o.pre.users
        THEN o.res = [kind |-> "user", name |-> userKey] /\ o.made = <<>>
        ELSE IF orgKey \in o.pre.orgs
        THEN o.res = [kind |-> "org", name |-> orgKey] /\ o.made = <<>>
        ELSE IF Ns(p).kind = "group"
        THEN o.res = [kind |-> "org", name |-> orgKey] /\ o.made = <<"org">>
        ELSE o.res = [kind |-> "user", name |-> PathOf(Ns(p))] /\ o.made = <<"user">>

\* C8, as stated: step 1 is the target user whose username is the normalized
\* namespace path.
C8_NormalizedUserFirst ==
    \A p \in Projects :
        (Resolved(p) /\ hist.own[p].truthful) => Precedence(p, name_clean(PathOf(Ns(p))))

\* C8, amended: with truthful answers the resolver returns the first hit of (1) the
\* target user whose username is the namespace path as it is, (2) the target
\* organization with the normalized name, (3) for a group, a newly created
\* organization of the normalized name, (4) otherwise a newly created user for the
\* namespace path; it sends no create request when step 1 or 2 hits.
C8_PathUserFirst ==
    \A p \in Projects :
        (Resolved(p) /\ hist.own[p].truthful) => Precedence(p, PathOf(Ns(p)))

\* the target held a user under the normalized name only, and the resolver went on to
\* create the owner for the path
C8_Witness ==
    \E p \in Projects :
        /\ Resolved(p) /\ hist.own[p].truthful
        /\ name_clean(PathOf(Ns(p))) # PathOf(Ns(p))
        /\ name_clean(PathOf(Ns(p))) \in hist.own[p].pre.users
        /\ hist.own[p].made # <<>>

\* the target holds neither a user nor an organization for the namespace
NoMatch(p) ==
    LET held == hist.own[p].pre.users \cup hist.own[p].pre.orgs
    IN  PathOf(Ns(p)) \notin held /\ name_clean(PathOf(Ns(p))) \notin held

\* C9: for a group namespace without a match the resolver sends exactly one
\* create-organization request and no create-user request, whether the creation
\* succeeds or not.
C9_GroupCreatesOneOrg ==
    \A p \in Projects :
        (Ns(p).kind = "group" /\ NoMatch(p) /\ hist.own[p].state # "none") =>
            /\ hist.own[p].made \in {<<>>, <<"org">>}
            /\ Resolved(p) => hist.own[p].made = <<"org">>

\* the one creation was sent and failed
C9_Witness ==
    \E p \in Projects :
        /\ Ns(p).kind = "group" /\ NoMatch(p)
        /\ hist.own[p].state = "failed" /\ hist.own[p].made = <<"org">>

\* C10: for a personal namespace without a match the resolver sends exactly one
\* create-user request and no create-organization request.
C10_PersonalCreatesOneUser ==
    \A p \in Projects :
        (Ns(p).kind # "group" /\ NoMatch(p) /\ hist.own[p].state # "none") =>
            /\ hist.own[p].made \in {<<>>, <<"user">>}
            /\ Resolved(p) => hist.own[p].made = <<"user">>

\* the user was created and is the owner
C10_Witness ==
    \E p \in Projects :
        /\ Ns(p).kind # "group" /\ NoMatch(p)
        /\ hist.own[p].state = "found" /\ hist.own[p].made = <<"user">>
        /\ hist.own[p].res = [kind |-> "user", name |-> PathOf(Ns(p))]

\* the requests that belong to a project once it has an owner
ProjectKinds == {"repo", "collab", "label", "milestone", "issue"}

\* C11: a request for a project's repository, collaborators, labels, milestones or
\* issues is sent only while the owner resolver has returned an owner for the project;
\* a project whose owner could not be created gets none of them, then or later, the
\* step that gives it up moves on to the next project, and a run that ends has visited
\* every eligible project.
C11_NoOwnerNoProject ==
    /\ [](pc = "done" => \A i \in 1..Len(loc.eligible) : loc.eligible[i] \in hist.visited)
    /\ [][ /\ lastReq'.kind \in ProjectKinds => hist'.own[PIdx].state = "found"
           /\ \A p \in Projects :
                 hist.own[p].state = "failed" =>
                     /\ hist'.own[p].state = "failed"
                     /\ hist'.mig[p] = <<>> /\ hist'.res[p] = "none"
           /\ \A p \in Projects :
                 (hist.own[p].state # "failed" /\ hist'.own[p].state = "failed") =>
                     /\ pc' = "proj_loop" /\ loc'.p = loc.p + 1
                     /\ lastReq'.kind \notin ProjectKinds ]_vars

\* the first project's owner could not be created, nothing was sent for the project,
\* and the second project was imported
C11_Witness ==
    /\ pc = "done"
    /\ hist.own[1].state = "failed" /\ hist.own[1].made # <<>>
    /\ hist.mig[1] = <<>>
    /\ hist.res[2] = "imported"

\* the create-issue requests sent for the issue of that key, in order
PostsFor(key) == SelectSeq(hist.posts, LAMBDA x : x.key = key)

\* the error records logged for the issue of that title
IssueErrors(title) ==
    Cardinality({i \in 1..Len(GLOBAL_ERROR_LIST) :
                    GLOBAL_ERROR_LIST[i] = <<"failed to import issue", title>>})

\* the issue of that key is the one being posted
Posting(key) == pc \in {"iss_post", "iss_post_fallback"} /\ IssueKey(Issue.title) = key

\* the payload with assignee and assignees cleared and nothing else changed
Cleared(body) == [body EXCEPT !.assignee = Empty, !.assignees = <<>>]

\* C12: when the first create-issue response is a failure that mentions an assignee,
\* one more create-issue request is sent for the issue and no third; it carries the
\* first payload with assignee and assignees cleared; once its response is in, one
\* error record is logged for the issue when it failed and none when it succeeded.
\* A first response of any other kind is followed by no further request.
C12_OneRetryWithoutAssignees ==
    \A i \in 1..Len(hist.posts) :
        LET posts == PostsFor(hist.posts[i].key)
            title == hist.posts[i].key[2]
        IN  /\ Len(posts) <= 2
            /\ posts[1].answer # "assignee" => Len(posts) = 1
            /\ (posts[1].answer = "assignee" /\ ~Posting(hist.posts[i].key)) =>
                  /\ Len(posts) = 2
                  /\ posts[2].body = Cleared(posts[1].body)
                  /\ posts[2].answer = "ok" => IssueErrors(title) = 0
                  /\ posts[2].answer = "rejected" => IssueErrors(title) = 1

\* the retry without assignees failed as well
C12_Witness ==
    /\ pc = "done"
    /\ \E i \in 1..(Len(hist.posts) - 1) :
          /\ hist.posts[i].answer = "assignee"
          /\ hist.posts[i].body.assignees # <<>>
          /\ hist.posts[i + 1].answer = "rejected"
          /\ IssueErrors(hist.posts[i].key[2]) = 1

\* C13: whenever a create-issue request is sent as author A with assignees S, A and
\* every member of S are users of the target and collaborators on the repository.
C13_AuthorAndAssigneesMayAct ==
    [][CreateSent("issue") =>
          \A u \in {lastReq'.body.sudo}
                      \cup Named(lastReq'.body.assignee, lastReq'.body.assignees) :
              u \in fg.users /\ RepoThere /\ IsCollaborator(u)]_vars

\* C14: when the create-user request for an issue's author or assignee was rejected,
\* no create-issue request is sent for that issue, and no further create-user request
\* is sent for that username in the run.
C14_UnprovisionedSkipsIssue ==
    [][ /\ CreateSent("issue") =>
              \A r \in hist.rejected : ~(r.project = PIdx /\ r.issue = loc.j)
        /\ CreateSent("user") => \A r \in hist.rejected : r.user # lastReq'.key ]_vars

\* the positions of the process outside the sub-entities of a project
OutsideSubEntities ==
    {"main", "main_groups", "main_projects", "main_report", "load_projects", "proj_loop",
     "own_user_get", "own_org_get", "own_org_create", "own_org_refetch",
     "own_user_create", "own_user_refetch", "repo_exists", "repo_migrate", "repo_check",
     "done", "exited", "crashed"}

\* C15: no outcome of a call made while a collaborator, label, milestone or issue of a
\* project is processed ends the run: the step that receives it leaves the process
\* running, so that the rest of the project, the later projects and the final report
\* follow.
C15_SubEntityFailureNeverEndsRun ==
    [][pc \notin OutsideSubEntities => pc' # "crashed"]_vars

\* C16: at the end of a run the driver reports success exactly when no error was
\* logged before the report; when errors were logged it prints the whole list of failed
\* elements and the process ends with a status other than 0.
C16_NonZeroExitOnErrors ==
    pc = "done" =>
        /\ hist.report = "success" <=> GLOBAL_ERROR_COUNT = 0
        /\ GLOBAL_ERROR_COUNT # 0 =>
              /\ hist.printed = GLOBAL_ERROR_LIST
              /\ hist.exit # <<0>>

\* the step is one of those the importer counts as no failure: an entity that exists
\* is skipped; an access level it does not know is granted as read; a migrate request
\* times out and is retried, or its repository is found and taken as imported; an issue
\* is imported with its assignees dropped
NoFailureStep ==
    \/ lastReq'.reported = "present"
    \/ /\ pc = "col_put"
       /\ ~supported_access_level(loc.data.collaborators[loc.j].access_level)
       /\ fg'.collabs # fg.collabs
    \/ pc = "repo_migrate" /\ pc' = "repo_check"
    \/ pc = "repo_check" /\ (pc' = "repo_migrate" \/ hist'.res[PIdx] = "reclassified")
    \/ pc = "iss_post" /\ pc' = "iss_post_fallback"
    \/ pc = "iss_post_fallback" /\ fg'.issues # fg.issues

\* C17: the error counter never decreases and the error list only grows at its end;
\* both are left as they are by a step that skips an existing entity, grants read for
\* an unknown access level, retries or reclassifies a timed-out migrate request, or
\* imports an issue without its assignees.
C17_OnlyErrorsChangeTheAggregator ==
    [][ /\ GLOBAL_ERROR_COUNT' >= GLOBAL_ERROR_COUNT
        /\ Len(GLOBAL_ERROR_LIST') >= Len(GLOBAL_ERROR_LIST)
        /\ SubSeq(GLOBAL_ERROR_LIST', 1, Len(GLOBAL_ERROR_LIST)) = GLOBAL_ERROR_LIST
        /\ NoFailureStep => UNCHANGED <<GLOBAL_ERROR_COUNT, GLOBAL_ERROR_LIST>> ]_vars

\* a run has ended in which the repository was taken as imported after a timeout, the
\* collaborator's unknown access level was granted as read, and the issue was imported
\* without its assignees, and no error was logged
C17_Witness ==
    /\ pc = "done"
    /\ hist.res[1] = "reclassified"
    /\ ~supported_access_level(gl.projects[1].collaborators[1].access_level)
    /\ \E c \in fg.collabs : c.user = alice /\ c.perm = "read"
    /\ Len(hist.posts) = 2 /\ hist.posts[1].answer = "assignee" /\ hist.posts[2].answer = "ok"
    /\ hist.report = "success"
    /\ GLOBAL_ERROR_COUNT = 0 /\ GLOBAL_ERROR_LIST = <<>>

\* out is what the normalizer makes of the name in
Normalized(in, out) ==
    LET body == SubSeq(out, 1, Len(in)) IN
    /\ Len(out) >= Len(in)
    /\ \A i \in 1..Len(in) :
          out[i] = IF in[i] = " " THEN "_"
                   ELSE IF in[i] \in AllowedChars THEN in[i] ELSE "-"
    /\ Range(out) \subseteq AllowedChars
    /\ out = IF Lower(body) = <<"p","l","u","g","i","n","s">>
             THEN body \o <<"-","u","s","e","r">> ELSE body

\* C18: every organization name and repository name sent to the target is the source
\* name with each blank replaced by an underscore and each other character outside
\* [A-Za-z0-9_.-] by a hyphen, followed by "-user" when that result is "plugins" in any
\* spelling; it has no character outside the class, and every request of a run that
\* carries the normalized name carries the same one.
C18_NormalizedNames ==
    /\ lastReq.kind = "org" => Normalized(gl.projects[1].ns.path, lastReq.key)
    /\ lastReq.kind = "repo" =>
          /\ Normalized(gl.projects[1].ns.path, lastReq.key[1])
          /\ Normalized(gl.projects[1].name, lastReq.key[2])

\* a repository was imported under a name in which a blank and a character outside the
\* class were replaced
C18_Witness ==
    /\ lastReq.op = "create" /\ lastReq.kind = "repo"
    /\ gl.projects[1].name = <<" ", "!">>
    /\ lastReq.key[2] = <<"_", "-">>
    /\ lastReq.key \in fg.repos

\* the permission the claim gives for a source access level
PermissionOf(level) ==
    CASE level \in {10, 20} -> "read"
      [] level = 30 -> "write"
      [] level \in {40, 50} -> "admin"
      [] OTHER -> "read"

\* C19: the collaborator importer asks for read at level 10 or 20, write at 30, admin
\* at 40 or 50 and read at any other level; it logs a warning for a level of the last
\* kind and none for the others; an accepted grant stores that permission and logs no
\* error.
C19_AccessLevelMapping ==
    [][ (pc = "col_put" /\ CreateSent("collab")) =>
           LET level == loc.data.collaborators[loc.j].access_level IN
           /\ lastReq'.body.permission = PermissionOf(level)
           /\ warnCount' = warnCount + (IF level \in {10, 20, 30, 40, 50} THEN 0 ELSE 1)
           /\ fg'.collabs # fg.collabs =>
                 /\ [repo |-> RepoKey, user |-> loc.u, perm |-> PermissionOf(level)]
                       \in fg'.collabs
                 /\ UNCHANGED <<GLOBAL_ERROR_COUNT, GLOBAL_ERROR_LIST>> ]_vars

\* a collaborator of a level the importer does not know was granted read, with a
\* warning and without an error
C19_Witness ==
    /\ pc = "done"
    /\ gl.projects[1].collaborators[1].access_level = 60
    /\ \E c \in fg.collabs : c.user = alice /\ c.perm = "read"
    /\ warnCount > 0
    /\ GLOBAL_ERROR_COUNT = 0

\* the user of the grant request is a collaborator on its repository as the step starts
GrantForCollaborator ==
    \E c \in fg.collabs : <<c.repo, c.user>> = lastReq'.key

\* C20: no grant request is sent for a user who is a collaborator on the
\* target repository, and no step changes the permission a collaborator has.
C20_CollaboratorNeverGrantedAgain ==
    [][ /\ CreateSent("collab") => ~GrantForCollaborator
        /\ \A c \in fg.collabs : c \in fg'.collabs ]_vars

\* the calls of ensure_user_exists made for the username, in order
CallsOf(u) == SelectSeq(hist.eu, LAMBDA c : c.user = u)

\* the first call for the username found no user on the target and created it
CreatedByFirstCall(calls) == ~calls[1].held /\ calls[1].create = "CREATED"

\* the call found the user and returned it without a temporary password
FoundAndReturned(call) ==
    /\ call.lookup = "OK"
    /\ call.create = "none"
    /\ call.ret = << [user |-> call.user, pw |-> FALSE] >>

LastCall == hist.eu[Len(hist.eu)]

LookupSteps ==
    {"eu_get", "own_user_get", "own_org_get", "groups_loop", "grp_member_loop",
     "gm_member_exists", "repo_exists", "col_exists", "ec_exists",
     "lab_loop", "ms_loop", "iss_loop"}

\* the positions to which a lookup that counts as not found leads: the create request,
\* or what the code does on the way to it (the owner resolver's second lookup, the
\* provisioning of an issue's author)
CreationSteps ==
    {"eu_create", "own_org_get", "own_org_create", "own_user_create", "grp_create",
     "gm_user_create", "gm_member_put", "repo_migrate", "col_put", "ec_put",
     "lab_post", "ms_post", "eu_get"}

LookupSent == pc \in LookupSteps /\ lastReq'.op \in {"get", "list"}

\* C23: a lookup that the target answers truthfully with not found logs no error
\* record and leads to the creation; a lookup that fails otherwise (unexpected status
\* or transport error) logs one error record and leads to the creation as well.
C23_OnlyFailedLookupsAreLogged ==
    [][ LookupSent =>
           /\ (faults' = faults /\ lastReq'.reported = "absent") =>
                 /\ GLOBAL_ERROR_COUNT' = GLOBAL_ERROR_COUNT
                 /\ pc' \in CreationSteps
           /\ faults' # faults =>
                 /\ GLOBAL_ERROR_COUNT' = GLOBAL_ERROR_COUNT + 1
                 /\ pc' \in CreationSteps ]_vars

Passes == <<"users", "groups", "projects">>

\* the place of a pass in the order users, groups, projects; 0 before the first
PassRank(pass) ==
    IF \E i \in 1..Len(Passes) : Passes[i] = pass
    THEN CHOOSE i \in 1..Len(Passes) : Passes[i] = pass
    ELSE 0

\* the command line asks for the pass
Requested(pass) == args.all \/ args[pass]

\* C24: within a run, every request is sent by a pass the command line asks for, and
\* the pass that sends requests never goes back in the order users, groups, projects:
\* every request of the users pass precedes every request of the groups pass, which
\* precede every request of the projects pass, and a pass not asked for sends none.
C24_PassesInOrder ==
    [][ run' = run =>
           /\ lastReq'.op # "none" => (PassRank(loc'.pass) > 0 /\ Requested(loc'.pass))
           /\ PassRank(loc'.pass) >= PassRank(loc.pass) ]_vars

\* a run asked for users and projects has ended: the users pass imported a key, the
\* projects pass a repository, and the groups pass added no member to any team
C24_Witness ==
    /\ pc = "done"
    /\ args.users /\ args.projects /\ ~args.groups /\ ~args.all
    /\ fg.keys # {} /\ fg.repos # {}
    /\ fg.members = {}
    /\ loc.pass = "projects"

\* the positions of the process in the six steps of one project, in the order in
\* which _import_one_project_full takes them
ProjectSteps ==
    << {"own_user_get", "own_org_get", "own_org_create", "own_org_refetch",
        "own_user_create", "own_user_refetch"},
       {"repo_exists", "repo_migrate", "repo_check"},
       {"col_loop", "col_exists", "col_put"},
       {"lab_loop", "lab_post"},
       {"ms_loop", "ms_post", "ms_patch"},
       {"iss_get_ms", "iss_get_labels", "iss_loop", "iss_author_collab", "iss_assignee",
        "iss_assignee_collab", "iss_assignees", "iss_assignees_collab", "iss_post",
        "iss_post_fallback"} >>

\* the kinds of the requests each step sends: the owner is a user or an organization,
\* a collaborator's user is provisioned before the grant, and the issues step lists
\* milestones and labels and provisions and grants the author and the assignees
StepKinds ==
    << {"user", "org"}, {"repo"}, {"user", "collab"}, {"label"}, {"milestone"},
       {"milestone", "label", "user", "collab", "issue"} >>

\* the position in the importer of the projects, below the calls that are active
Caller(position, calls) == IF calls = <<>> THEN position ELSE calls[Len(calls)]

\* the step of the project the process is in; 0 between two projects
StepOf(position, calls) ==
    IF \E s \in 1..Len(ProjectSteps) : Caller(position, calls) \in ProjectSteps[s]
    THEN CHOOSE s \in 1..Len(ProjectSteps) : Caller(position, calls) \in ProjectSteps[s]
    ELSE 0

InProjects(position, calls) ==
    Caller(position, calls) = "proj_loop" \/ StepOf(position, calls) > 0

\* C25: the eligible projects are taken one at a time in the order of the source's
\* list; within a project the process goes through owner resolution, repository
\* migration, collaborators, labels, milestones and issues in that order, one step
\* after the other and never back, and it leaves a project only after the issues step
\* or without an owner; every request is sent by the step the process is in and is of
\* a kind of that step, and a request for a repository names the current project's.
C25_StepsAndProjectsInOrder ==
    /\ [](\A i, j \in 1..Len(loc.eligible) : i < j => loc.eligible[i] < loc.eligible[j])
    /\ [][ /\ (InProjects(pc, stk) /\ InProjects(pc', stk')) =>
                \/ /\ loc'.p = loc.p
                   /\ StepOf(pc', stk') \in {StepOf(pc, stk), StepOf(pc, stk) + 1}
                \/ /\ loc'.p = loc.p + 1
                   /\ StepOf(pc', stk') = 0
                   /\ StepOf(pc, stk) \in {1, Len(ProjectSteps)}
           /\ lastReq'.op # "none" =>
                /\ StepOf(pc, stk) > 0
                /\ lastReq'.kind \in StepKinds[StepOf(pc, stk)]
                /\ lastReq'.kind = "repo" => lastReq'.key = RepoKey ]_vars

\* a run has ended in which both projects were imported with their issue, the first
\* before the second
C25_Witness ==
    /\ pc = "done"
    /\ Len(loc.eligible) = 2
    /\ hist.res[1] = "imported" /\ hist.res[2] = "imported"
    /\ Len(hist.posts) = 2
    /\ hist.posts[1].key[2] = i1 /\ hist.posts[1].key[1][2] = name_clean(gl.projects[1].name)
    /\ hist.posts[2].key[1][2] = name_clean(gl.projects[2].name)

\* the user's effective access level on project p: the larger of the project's and
\* the group's
EffectiveAccess(p) ==
    LET project == gl.projects[p]
    IN  IF project.project_access >= project.group_access
        THEN project.project_access ELSE project.group_access

\* the membership projects on which the effective access level is at least the level
MembershipAtLeast(level) == {p \in Projects : EffectiveAccess(p) >= level}

\* C26, as stated: the projects a run takes up are among those on which the effective
\* access level is at least maintainer (40 on the source), and a run that ends has
\* taken up every one of them.
C26_MaintainerProjectsExactly ==
    /\ hist.visited \subseteq MembershipAtLeast(40)
    /\ pc = "done" => hist.visited = MembershipAtLeast(40)

\* C26, amended: the projects a run takes up are among those on which the effective
\* access level is at least 30 (developer on the source), and a run that ends has
\* taken up every one of them whose details the source delivered; a project below
\* that level is never taken up.
C26_DeveloperProjectsThatLoad ==
    /\ hist.visited \subseteq MembershipAtLeast(30)
    /\ pc = "done" => hist.visited = MembershipAtLeast(30) \ hist.unloaded

\* a run has ended that took up the first project, on which the user is a developer
\* through the group only, and left the second, on which the user is a reporter
C26_Witness ==
    /\ pc = "done"
    /\ gl.projects[1].project_access = 0 /\ gl.projects[1].group_access = 30
    /\ EffectiveAccess(2) = 20
    /\ hist.visited = {1}
    /\ hist.res[1] = "imported" /\ hist.res[2] = "none"

\* C27: while the labels (the milestones, the issues) of one repository are imported,
\* the listing of that kind is requested at most once, however many items the source
\* has.
C27_OneListingPerKind ==
    \A kind \in DOMAIN hist.listings : hist.listings[kind] <= 1

\* the step sent a create-milestone request and the target created the milestone
MilestoneCreated ==
    /\ pc = "ms_post"
    /\ CreateSent("milestone")
    /\ fg'.milestones # fg.milestones

\* the step sent an update request
UpdateSent == lastReq'.op = "update"

SentAs(issue) == IF Strip(issue.author) = Empty THEN Importer ELSE Strip(issue.author)

\* the first issue of the repository is about to be processed
AtFirstIssue == pc = "iss_loop" /\ stk = <<>> /\ loc.j = 1

\* C29: every create-issue request, the retry without assignees included, is sent as
\* the source issue's author, or as the importer identity when the source issue names
\* no author; and when the first issue of a repository is about to be processed, the
\* call that provisions the importer identity has just returned.
C29_IssuesSentAsAuthorOrImporter ==
    /\ [][CreateSent("issue") =>
             /\ pc \in {"iss_post", "iss_post_fallback"}
             /\ lastReq'.body.sudo = SentAs(loc.data.issues[loc.j])
             /\ lastReq'.key = IssueKey(loc.data.issues[loc.j].title)]_vars
    /\ [](AtFirstIssue =>
             /\ hist.eu # <<>>
             /\ LastCall.user = Importer
             /\ LastCall.ret # <<>>)

\* a run has ended in which the first issue went through the retry without assignees,
\* sent as its author both times, and the second, which names no author, was sent as
\* the importer identity
C29_Witness ==
    /\ pc = "done"
    /\ Len(hist.posts) = 3
    /\ hist.posts[1].body.sudo = bob /\ hist.posts[1].answer = "assignee"
    /\ hist.posts[2].body.sudo = bob /\ hist.posts[2].body.assignees = <<>>
    /\ hist.posts[2].answer = "ok"
    /\ hist.posts[3].key[2] = i2 /\ hist.posts[3].body.sudo = Importer
    /\ hist.posts[3].answer = "ok"
    /\ \E i \in 1..Len(hist.eu) : hist.eu[i].user = Importer /\ hist.eu[i].create = "CREATED"

\* C30: the waits made for a repository are 5 seconds after the first attempt and 10
\* after the second, in that order and no others: wait k is made exactly when attempt
\* k, k = 1 or 2, timed out and the lookup that follows reported the repository absent
\* (a wait is never made after a lookup that found it, after an attempt that failed
\* otherwise or succeeded, or after the third attempt), and attempt k + 1 is sent only
\* after wait k.
C30_BackoffFiveTimesAttempt ==
    \A p \in Projects :
        LET waits == hist.slept[p]
            mig   == hist.mig[p]
            chk   == hist.chk[p]
        IN  /\ \A k \in 1..Len(waits) :
                  /\ waits[k] = 5 * k
                  /\ k \in {1, 2}
                  /\ k <= Len(chk) /\ mig[k] = "timeout" /\ chk[k] # "present"
            /\ \A k \in 1..Len(chk) :
                  (k \in {1, 2} /\ chk[k] = "absent") => Len(waits) >= k
            /\ \A k \in 2..Len(mig) : Len(waits) >= k - 1

\* a run has ended in which all three attempts for the first repository timed out with
\* the repository absent: the process waited 5 and then 10 seconds, and not for the
\* second repository, which was imported at once
C30_Witness ==
    /\ pc = "done"
    /\ hist.mig[1] = <<"timeout", "timeout", "timeout">>
    /\ hist.chk[1] = <<"absent", "absent", "absent">>
    /\ hist.slept[1] = <<5, 10>>
    /\ hist.res[2] = "imported" /\ hist.slept[2] = <<>>

\* C31: every create-user request, whichever pass sends it, carries a temporary
\* password generated for that request, never a constant.
C31_FreshPasswordForEveryUser ==
    [][CreateSent("user") => lastReq'.body.password = "random"]_vars

\* the projects of the source group: those whose namespace is a group of its name
ProjectsOfGroup(group) ==
    {p \in Projects : Ns(p).kind = "group" /\ Ns(p).name = group.name}

\* C32: at the end of a run of the groups and the projects pass in which every answer
\* was truthful, the target holds one organization per source group, the one the
\* groups pass computed from the group, and the owner resolver returned that
\* organization for each of the group's projects, whose repository is placed under it.
C32_OneOrganizationPerGroup ==
    (pc = "done" /\ run = 1 /\ faults = 0 /\ Requested("groups") /\ Requested("projects")) =>
        /\ Cardinality(fg.orgs) = Len(gl.groups)
        /\ \A g \in 1..Len(gl.groups) :
              LET key == name_clean(gl.groups[g].name) IN
              /\ key \in fg.orgs
              /\ \A p \in ProjectsOfGroup(gl.groups[g]) :
                    /\ hist.own[p].res = [kind |-> "org", name |-> key]
                    /\ <<key, name_clean(gl.projects[p].name)>> \in fg.repos

\* C33: a create-user request asks the target to send a notification only when the
\* command line has the notification option, the users pass sends it, and the user is
\* not the importer identity; with the option off no create-user request asks for one.
C33_NotificationOnlyFromUsersPass ==
    [][CreateSent("user") /\ lastReq'.body.notify
          => (args.notify /\ loc.pass = "users" /\ lastReq'.key # Importer)]_vars

\* the users pass has created a source user with notification
C33_Witness ==
    /\ args.notify
    /\ loc.pass = "users"
    /\ lastReq.op = "create" /\ lastReq.kind = "user"
    /\ lastReq.key = alice
    /\ lastReq.body.notify
    /\ alice \in fg.users

\* the kinds of item that are written into a repository
RepoItemKinds == {"collab", "label", "milestone", "issue"}

\* the target key the run gave the source project: the owner the resolver returned and
\* the normalized project name
TargetKeyOf(p) == <<hist.own[p].res.name, name_clean(gl.projects[p].name)>>

\* the repository of that key was imported for another source project than the current
ImportedForAnother(key) ==
    \E q \in Projects \ {PIdx} :
        hist.res[q] \in {"imported", "reclassified"} /\ TargetKeyOf(q) = key

\* C34: no collaborator, label, milestone or issue of a source project is sent to a
\* target repository that was imported for another source project: two source projects
\* of one namespace never share an (owner, repository) key.
C34_ItemsGoToOwnRepository ==
    [][ (lastReq'.op = "create" /\ lastReq'.kind \in RepoItemKinds)
           => ~ImportedForAnother(lastReq'.key[1]) ]_vars

\* the import of the current project's repository ended with an error record and the
\* target does not hold the repository
RepoImportFailed ==
    /\ hist.res[PIdx] \in {"rejected", "request_failed", "timed_out"}
    /\ RepoKey \notin fg.repos

\* C35: once the import of a project's repository has ended with an error record and
\* the repository is absent from the target, the collaborators, labels, milestones and
\* issues steps of that project send no collaborator, label, milestone or issue request
\* and append no further error record.
C35_NothingAfterFailedImport ==
    [][ (StepOf(pc, stk) >= 3 /\ RepoImportFailed)
           => /\ lastReq'.kind \notin RepoItemKinds
              /\ GLOBAL_ERROR_COUNT' = GLOBAL_ERROR_COUNT ]_vars

\* the keys of the kind that the target holds
HeldKeys(kind) ==
    IF kind = "label" THEN fg.labels
    ELSE IF kind = "milestone" THEN {m.key : m \in fg.milestones}
    ELSE {i.key : i \in fg.issues}

\* C36: in a run on an empty target, no create request is sent for a label, a milestone
\* or an issue whose key the target already holds: of two items of a source list that
\* have the same name or title, the second is not created once the first was.
C36_SecondOfTwoEqualItemsIsSkipped ==
    [][ (run = 1 /\ lastReq'.op = "create" /\ lastReq'.kind \in {"label", "milestone", "issue"})
           => lastReq'.key \notin HeldKeys(lastReq'.kind) ]_vars

\* the user is a member of the current project with access level 30, 40 or 50 and holds
\* the permission the collaborator importer grants for that level
GrantedMember(u) ==
    \E j \in 1..Len(loc.data.collaborators) :
        LET member == loc.data.collaborators[j] IN
        /\ Strip(member.username) = u
        /\ member.access_level \in {30, 40, 50}
        /\ [repo |-> RepoKey, user |-> u, perm |-> permission_for(member.access_level)]
              \in fg.collabs

\* C37: the issue importer sends no read grant for a member of the project who holds
\* the write or admin permission mapped from the member's access level, so a member who
\* is the author or an assignee of an issue keeps that permission.
C37_NoReadGrantForCollaborator ==
    [][ (pc = "ec_put" /\ GrantedMember(loc.u)) =>
           /\ ~(lastReq'.op = "create" /\ lastReq'.kind = "collab")
           /\ \A c \in fg.collabs : (c.repo = RepoKey /\ c.user = loc.u) => c \in fg'.collabs ]_vars

\* the owner resolver's create request was rejected: it was answered, nothing was created
OwnerCreateRejected ==
    /\ pc \in {"own_org_create", "own_user_create"}
    /\ lastReq'.op = "create"
    /\ fg' = fg
    /\ pc' # "crashed"

\* the step appended that many error records
ErrorsAppended(k) ==
    /\ GLOBAL_ERROR_COUNT' = GLOBAL_ERROR_COUNT + k
    /\ Len(GLOBAL_ERROR_LIST') = Len(GLOBAL_ERROR_LIST) + k

\* C38: a create-organization or create-user request of the owner resolver that the
\* target rejects appends three error records for the project, the resolver's, its
\* caller's and the project driver's; a namespace without a path appends two, the
\* caller's and the driver's.
C38_OwnerFailureLogsThreeOrTwo ==
    [][ /\ OwnerCreateRejected =>
              /\ ErrorsAppended(3)
              /\ SubSeq(GLOBAL_ERROR_LIST', Len(GLOBAL_ERROR_LIST) + 1, Len(GLOBAL_ERROR_LIST) + 3)
                    = Tagged(<< <<(IF pc = "own_org_create" THEN "failed to create group"
                                                           ELSE "failed to create user"),
                                  lastReq'.key>>,
                                <<"failed to load or create user/org", ns_name>>,
                                <<"project failed to load owner", clean_repo>> >>)
        /\ (pc = "own_user_get" /\ ns_path = Empty) => ErrorsAppended(2) ]_vars

\* the project without a namespace path was left with two error records, and the
\* rejected create request for the next project's owner added three
C38_Witness ==
    /\ hist.own[1].state = "failed"
    /\ hist.own[2].state = "failed"
    /\ hist.own[2].made # <<>>
    /\ lastReq.op = "create" /\ lastReq.kind \in {"org", "user"}
    /\ faults = 1
    /\ GLOBAL_ERROR_COUNT = 5

====
